---- MODULE Spec2Model ----
(***************************************************************************)
(* Task orchestration of saassy: the worker-manager's internal routes,     *)
(* the BullMQ task queue, the task processor (processTask / recordUsage)   *)
(* and the DockerManager sandbox runner, over the PocketBase record store. *)
(***************************************************************************)
EXTENDS Integers, Sequences, FiniteSets, TLC

\* ------------------------------------------------------------------ bounds
MaxPullSeconds == 2     \* seconds an image pull takes when the image is not present
MaxRunSeconds == 1      \* longest run of a sandbox that exits well before its timeout
MaxDiagLines == 1       \* most diagnostic lines a sandbox writes before its result
MaxFaults == 3          \* most environment faults (rejected calls, worker crashes) in a run
MaxStarts == 1          \* most jobs that start requests add to the queue
Grace == 1              \* the grace (seconds) allowed on top of timeoutSeconds
MaxSubscriptions == 1   \* most subscription records of one user
MaxMonthTasks == 1001   \* largest currentMonthTasks passed to canCreateTask
MaxConcurrentTasks == 51 \* largest currentConcurrent passed to canCreateTask

\* ------------------------------------------------------- program constants
attempts == 3                 \* createQueue: defaultJobOptions.attempts
maxStalledCount == 1          \* bullmq Worker default, not overridden in start()
cpuLimit == 1                 \* POST /tasks/start: limits.cpuLimit
memoryLimitMb == 512          \* POST /tasks/start: limits.memoryLimit '512m'
TimeoutExitCode == -1         \* runContainer: exitCode of the timeout result
CatchExitCode == -1           \* runContainer: exitCode of the catch result

Tasks == {"t1", "t2"}
Slots == {1, 2}
Users == {"u1"}
NoTask == "none"

VALID_TASK_TYPES == {"example-worker", "test-worker"}
\* Types that requests carry: a registered one, an unknown one, and the name
\* of a property every JavaScript object inherits.
RequestTypes == {"test-worker", "not-a-real-worker", "constructor"}

getWorkerImage(type) ==
  CASE type = "example-worker" -> "saassy/example-worker:latest"
    [] type = "test-worker" -> "saassy/test-worker:latest"
    [] type = "constructor" -> "function Object()"
    [] OTHER -> "null"

VALID_PLANS == {"free", "starter", "pro", "enterprise"}

\* The plan field a start request may carry in its body.
RequestPlans == {"free", "enterprise"}

PLAN_LIMITS ==
  [free       |-> [tasksPerMonth |-> 10,   maxConcurrent |-> 1,  maxDurationSeconds |-> 60],
   starter    |-> [tasksPerMonth |-> 100,  maxConcurrent |-> 3,  maxDurationSeconds |-> 300],
   pro        |-> [tasksPerMonth |-> 1000, maxConcurrent |-> 10, maxDurationSeconds |-> 3600],
   enterprise |-> [tasksPerMonth |-> -1,   maxConcurrent |-> 50, maxDurationSeconds |-> 86400]]

\* ------------------------------------------------------------ value shapes
\* The error field of a ContainerResult / Task: undefined, the timeout
\* sentinel, 'Exit code: N', or the message of a caught runtime error.
Undefined == [kind |-> "undefined", n |-> 0]
TimeoutError(T) == [kind |-> "Task timed out after n seconds", n |-> T]
ExitCodeError(N) == [kind |-> "Exit code: n", n |-> N]
RuntimeError == [kind |-> "runtime error message", n |-> 0]

\* Lines a sandbox can write: one JSON document, one diagnostic line.
JsonLine == "{\"success\":true,\"result\":{\"sum\":15}}"
DiagLine == "[TestWorker] Starting task"
Lines == {JsonLine, DiagLine}

\* What a sandbox may have written (stdout and stderr together) by the time
\* its logs are fetched: some diagnostic lines, then its JSON result or none.
SandboxOutputs ==
  {[i \in 1..k |-> DiagLine] \o tail : k \in 0..MaxDiagLines, tail \in {<<>>, <<JsonLine>>}}

ExitCodes == {0, 1}

NoOutput == [kind |-> "undefined", doc |-> "", raw |-> <<>>]

\* JSON.parse of the collected text: the text is the lines, each ended by a
\* newline; it parses exactly when it holds one JSON document and nothing else.
JsonParses(str) == Len(str) = 1 /\ str[1] = JsonLine

tryParseJson(str) ==
  IF JsonParses(str)
  THEN [kind |-> "json", doc |-> str[1], raw |-> <<>>]
  ELSE [kind |-> "raw", doc |-> "", raw |-> str]

\* DockerManager.parseMemoryLimit: the bytes of a limit written as digits and
\* a unit letter (none: megabytes).
parseMemoryLimit(value, unit) ==
  CASE unit = "k" -> value * 1024
    [] unit \in {"m", ""} -> value * 1024 * 1024
    [] unit = "g" -> value * 1024 * 1024 * 1024
    [] OTHER -> value

\* parseMemoryLimit(memoryLimit) / 1024 / 1024 for the limit '<n>m' of a job.
MemoryMb(n) == (parseMemoryLimit(n, "m") \div 1024) \div 1024

ResourceUsage(durationSeconds, cpu, memMb) ==
  [cpuSeconds |-> durationSeconds * cpu,
   memoryMbSeconds |-> durationSeconds * memMb,
   durationSeconds |-> durationSeconds]

NoUsage == [cpuSeconds |-> -1, memoryMbSeconds |-> -1, durationSeconds |-> -1]

NoResult ==
  [exitCode |-> 0, output |-> <<>>, error |-> Undefined, resourceUsage |-> NoUsage]

\* ------------------------------------------------------------------- state
VARIABLES
  tasks,          \* record store, collection tasks: task id -> record
  subscriptions,  \* record store, collection subscriptions: user -> records, oldest first
  usage_records,  \* record store, collection usage_records: sequence of records
  jobs,           \* the bullmq queue: job id (= task id) -> job
  containers,     \* docker: container named saassy-task-<id> -> its state
  slots,          \* the worker's concurrent processTask invocations
  charges,        \* history: how often each task's usage was written to a usage record
  faults,         \* environment faults still to come (rejected calls, worker crashes)
  starts,         \* jobs added to the queue so far
  scope,          \* the task ids that requests are made for
  concurrency,    \* the Worker's concurrency option (MAX_CONCURRENT_WORKERS)
  rejected,       \* the last request a route turned down, with its answer
  call,           \* a call of canCreateTask: its arguments and what it returned
  handled,        \* history: the last cancel request, or start request for a job in the queue
  INTERNAL_API_KEY, \* process.env.INTERNAL_API_KEY of the worker manager ("undefined": not set)
  worker,         \* a run of the test worker: its TASK_INPUT, what it printed, its exit status
  exited,         \* history: the tasks whose sandboxed program has run to its exit
  lapsed          \* history: the users with a subscription canceled by a webhook and none set active since

vars == <<tasks, subscriptions, usage_records, jobs, containers, slots, charges,
          faults, starts, scope, concurrency, rejected, call, handled,
          INTERNAL_API_KEY, worker, exited, lapsed>>

NoCall ==
  [pc |-> "none", plan |-> "none", currentMonthTasks |-> 0, currentConcurrent |-> 0,
   returned |-> [allowed |-> FALSE, reason |-> "none"]]

\* A cancel request, or a start request that found the task's job in the
\* queue, as the dispatch API handled it: the route, the task id, the status
\* answered, the path the handler took, and what it found in the queue under
\* the task id (a cancel: the state of the job).
Handled(route, t, status, path, found) ==
  [route |-> route, task |-> t, status |-> status, path |-> path, found |-> found]

NoRequest == Handled("none", "none", 0, "none", "none")

\* The key the deployment sets for the internal routes.
ConfiguredKey == "s3cret"

\* No test worker has been run.
NoWorker == [pc |-> "none"]

NoRejection == [route |-> "none", status |-> 0, error |-> "none", type |-> "none"]

NoTaskRecord ==
  [status |-> "absent", user |-> "none", type |-> "none", output |-> NoOutput, error |-> Undefined,
   workerId |-> "none", startedAt |-> FALSE, completedAt |-> FALSE,
   resourceUsage |-> NoUsage]

NoRecord == [id |-> 0, cpuSeconds |-> 0, memoryMbSeconds |-> 0, taskCount |-> 0]

NoJob ==
  [state |-> "absent", attemptsMade |-> 0, stalledCount |-> 0,
   userId |-> "none", type |-> "none", workerImage |-> "null",
   cpuLimit |-> 0, memoryLimit |-> 0, timeoutSeconds |-> 0]

IdleSlot ==
  [pc |-> "idle", task |-> NoTask, elapsed |-> 0, raced |-> "none",
   StatusCode |-> 0, logs |-> <<>>, caught |-> FALSE, result |-> NoResult,
   existing |-> NoRecord, calls |-> 0]

Terminal == {"completed", "failed", "canceled"}

Subscription(plan, status) == [plan |-> plan, status |-> status]

\* recordUsage: new Date().toISOString().slice(0, 7), the calendar month of
\* the call; a run of the model stays within one month.
period == "2026-11"

\* Usage records the store holds from before: one of another owner for this
\* month and one of the requesting user for the month before, both billed.
PriorUsage ==
  << [user |-> "u0", task |-> "t0", period |-> period, cpuSeconds |-> 5,
      memoryMbSeconds |-> 2560, taskCount |-> 2, costCents |-> 7],
     [user |-> "u1", task |-> "t0", period |-> "2026-10", cpuSeconds |-> 3,
      memoryMbSeconds |-> 1536, taskCount |-> 1, costCents |-> 4] >>

Init ==
  /\ tasks = [t \in Tasks |-> NoTaskRecord]
  /\ subscriptions \in [Users -> {<<>>, <<Subscription("starter", "active")>>}]
  /\ usage_records = PriorUsage
  /\ jobs = [t \in Tasks |-> NoJob]
  /\ containers = [t \in Tasks |-> "none"]
  /\ slots = [s \in Slots |-> IdleSlot]
  /\ charges = [t \in Tasks |-> 0]
  /\ faults = MaxFaults
  /\ starts = 0
  /\ scope = {"t1"}
  /\ concurrency = 1
  /\ rejected = NoRejection
  /\ call = NoCall
  /\ handled = NoRequest
  /\ INTERNAL_API_KEY = ConfiguredKey
  /\ worker = NoWorker
  /\ exited = {}
  /\ lapsed = {}

\* --------------------------------------------------------------- the queue
moveToFailed_KeepsRetrying(job) ==
  [job EXCEPT !.state = "waiting", !.attemptsMade = job.attemptsMade + 1]

\* bullmq: the processor threw. The attempt is counted; the job goes back to
\* the queue (after its backoff delay) while attempts remain, else it fails.
moveToFailed(job) ==
  LET made == job.attemptsMade + 1
  IN IF made < attempts
     THEN [job EXCEPT !.state = "waiting", !.attemptsMade = made]
     ELSE [job EXCEPT !.state = "failed", !.attemptsMade = made]

\* bullmq: the lock of an active job expired because its worker died. The job
\* is handed out again unless it stalled more than maxStalledCount times.
moveStalledJobsToWait(job) ==
  LET stc == job.stalledCount + 1
  IN IF stc > maxStalledCount
     THEN [job EXCEPT !.state = "failed", !.stalledCount = stc]
     ELSE [job EXCEPT !.state = "waiting", !.stalledCount = stc]

\* An environment fault: a call to the record store, the runtime or the queue
\* is rejected, or the worker dies.
Fault ==
  /\ faults > 0
  /\ faults' = faults - 1

\* processTask rejected: the slot is free again, the queue takes the job back.
Throw(s) ==
  /\ jobs' = [jobs EXCEPT ![slots[s].task] = moveToFailed(@)]
  /\ slots' = [slots EXCEPT ![s] = IdleSlot]

\* ------------------------------------------------------------------ routes
\* POST /api/tasks of the web app: the task record is created as pending.
CreateTask(t, u, type) ==
  /\ t \in scope
  /\ type \in VALID_TASK_TYPES
  /\ tasks[t].status = "absent"
  /\ tasks' = [tasks EXCEPT ![t] = [NoTaskRecord EXCEPT !.status = "pending", !.user = u, !.type = type]]
  /\ UNCHANGED <<subscriptions, usage_records, jobs, containers, slots, charges, faults, starts, scope, concurrency, rejected, call, handled, INTERNAL_API_KEY, worker, exited, lapsed>>

\* POST /api/tasks with a type outside ALLOWED_TASK_TYPES: answered 400
\* before anything is created.
CreateTaskRejected(u, type) ==
  /\ type \notin VALID_TASK_TYPES
  /\ rejected' = [route |-> "POST /api/tasks", status |-> 400,
                  error |-> "Invalid task type", type |-> type]
  /\ UNCHANGED <<tasks, subscriptions, usage_records, jobs, containers, slots, charges, faults, starts, scope, concurrency, call, handled, INTERNAL_API_KEY, worker, exited, lapsed>>

PlanOf_IgnoresStatus(u, lookupOk) ==
  LET newest == Len(subscriptions[u])
  IN IF lookupOk /\ newest > 0 /\ subscriptions[u][newest].plan \in VALID_PLANS
     THEN subscriptions[u][newest].plan
     ELSE "free"

\* getList(1, 1, {filter: user = userId && status = "active", sort: -created})
\* gives the newest active subscription; its plan counts when it is one of
\* VALID_PLANS, else (none found, lookup rejected) the plan stays 'free'.
PlanOf(u, lookupOk) ==
  LET active == {i \in 1..Len(subscriptions[u]) : subscriptions[u][i].status = "active"}
      newest == CHOOSE i \in active : \A j \in active : j <= i
  IN IF lookupOk /\ active # {} /\ subscriptions[u][newest].plan \in VALID_PLANS
     THEN subscriptions[u][newest].plan
     ELSE "free"

StartTask_TrustsClientPlan(t, u, type, plan, lookupOk) ==
  /\ t \in scope
  /\ type \in VALID_TASK_TYPES
  /\ getWorkerImage(type) # "null"
  /\ jobs[t].state = "absent"
  /\ starts < MaxStarts
  /\ starts' = starts + 1
  /\ IF lookupOk THEN UNCHANGED faults ELSE Fault
  /\ jobs' = [jobs EXCEPT ![t] =
                [state |-> "waiting", attemptsMade |-> 0, stalledCount |-> 0,
                 userId |-> u, type |-> type, workerImage |-> getWorkerImage(type),
                 cpuLimit |-> cpuLimit, memoryLimit |-> memoryLimitMb,
                 timeoutSeconds |-> PLAN_LIMITS[plan].maxDurationSeconds]]
  /\ UNCHANGED <<tasks, subscriptions, usage_records, containers, slots, charges, scope, concurrency, rejected, call, handled, INTERNAL_API_KEY, worker, exited, lapsed>>

StartTask_NoWhitelist(t, u, type, plan, lookupOk) ==
  /\ t \in scope
  /\ getWorkerImage(type) # "null"
  /\ jobs[t].state = "absent"
  /\ starts < MaxStarts
  /\ starts' = starts + 1
  /\ IF lookupOk THEN UNCHANGED faults ELSE Fault
  /\ jobs' = [jobs EXCEPT ![t] =
                [state |-> "waiting", attemptsMade |-> 0, stalledCount |-> 0,
                 userId |-> u, type |-> type, workerImage |-> getWorkerImage(type),
                 cpuLimit |-> cpuLimit, memoryLimit |-> memoryLimitMb,
                 timeoutSeconds |-> PLAN_LIMITS[PlanOf(u, lookupOk)].maxDurationSeconds]]
  /\ UNCHANGED <<tasks, subscriptions, usage_records, containers, slots, charges, scope, concurrency, rejected, call, handled, INTERNAL_API_KEY, worker, exited, lapsed>>

\* POST /internal/tasks/start: the plan is looked up in the subscription store
\* (free when there is none or the lookup fails), whatever plan the request
\* body names, and the job is added under jobId = taskId; bullmq ignores an
\* add whose id is already in the queue.
StartTask(t, u, type, plan, lookupOk) ==
  /\ t \in scope
  /\ type \in VALID_TASK_TYPES
  /\ getWorkerImage(type) # "null"
  /\ jobs[t].state = "absent"
  /\ starts < MaxStarts
  /\ starts' = starts + 1
  /\ IF lookupOk THEN UNCHANGED faults ELSE Fault
  /\ jobs' = [jobs EXCEPT ![t] =
                [state |-> "waiting", attemptsMade |-> 0, stalledCount |-> 0,
                 userId |-> u, type |-> type, workerImage |-> getWorkerImage(type),
                 cpuLimit |-> cpuLimit, memoryLimit |-> memoryLimitMb,
                 timeoutSeconds |-> PLAN_LIMITS[PlanOf(u, lookupOk)].maxDurationSeconds]]
  /\ UNCHANGED <<tasks, subscriptions, usage_records, containers, slots, charges, scope, concurrency, rejected, call, handled, INTERNAL_API_KEY, worker, exited, lapsed>>

StartTaskAgain_ReplacesJob(t, u, type, plan, lookupOk) ==
  /\ t \in scope
  /\ type \in VALID_TASK_TYPES
  /\ getWorkerImage(type) # "null"
  /\ jobs[t].state # "absent"
  /\ IF lookupOk THEN UNCHANGED faults ELSE Fault
  /\ jobs' = [jobs EXCEPT ![t] =
                [@ EXCEPT !.userId = u, !.type = type, !.workerImage = getWorkerImage(type),
                          !.cpuLimit = cpuLimit, !.memoryLimit = memoryLimitMb,
                          !.timeoutSeconds = PLAN_LIMITS[PlanOf(u, lookupOk)].maxDurationSeconds]]
  /\ handled' = Handled("POST /internal/tasks/start", t, 200, "ignored", "present")
  /\ UNCHANGED <<tasks, subscriptions, usage_records, containers, slots, charges, starts, scope, concurrency, rejected, call, INTERNAL_API_KEY, worker, exited, lapsed>>

\* POST /internal/tasks/start for a task id whose job is in the queue already
\* (waiting, active, or kept after it completed or failed): the handler does
\* the same lookup, bullmq ignores the add under the existing jobId and gives
\* the handler a job object, and the answer is the same success.
StartTaskAgain(t, u, type, plan, lookupOk) ==
  /\ t \in scope
  /\ type \in VALID_TASK_TYPES
  /\ getWorkerImage(type) # "null"
  /\ jobs[t].state # "absent"
  /\ IF lookupOk THEN UNCHANGED faults ELSE Fault
  /\ handled' = Handled("POST /internal/tasks/start", t, 200, "ignored", "present")
  /\ UNCHANGED <<tasks, subscriptions, usage_records, jobs, containers, slots, charges, starts, scope, concurrency, rejected, call, INTERNAL_API_KEY, worker, exited, lapsed>>

\* POST /internal/tasks/start with a type outside VALID_TASK_TYPES (or one
\* that getWorkerImage maps to nothing): answered 400 before the queue is
\* touched.
StartTaskRejected(t, u, type) ==
  /\ t \in scope
  /\ type \notin VALID_TASK_TYPES \/ getWorkerImage(type) = "null"
  /\ rejected' = [route |-> "POST /internal/tasks/start", status |-> 400,
                  error |-> "Unknown task type", type |-> type]
  /\ UNCHANGED <<tasks, subscriptions, usage_records, jobs, containers, slots, charges, faults, starts, scope, concurrency, call, handled, INTERNAL_API_KEY, worker, exited, lapsed>>

\* The Stripe price ids of webhook events: the configured starter price, or
\* one that is not configured (or none).
Prices == {"STRIPE_PRICE_STARTER", "undefined"}

\* Stripe's status of a subscription in a customer.subscription.updated event.
StripeStatuses == {"active", "past_due"}

getPlanFromPriceId(priceId) ==
  CASE priceId = "STRIPE_PRICE_STARTER" -> "starter"
    [] priceId = "STRIPE_PRICE_PRO" -> "pro"
    [] OTHER -> "free"

\* Webhook checkout.session.completed: a subscription record is created for
\* the user, active, with the plan of the price paid.
handleCheckoutComplete(u, priceId) ==
  /\ Len(subscriptions[u]) < MaxSubscriptions
  /\ subscriptions' = [subscriptions EXCEPT ![u] =
                         Append(@, Subscription(getPlanFromPriceId(priceId), "active"))]
  /\ lapsed' = lapsed \ {u}
  /\ UNCHANGED <<tasks, usage_records, jobs, containers, slots, charges, faults, starts, scope, concurrency, rejected, call, handled, INTERNAL_API_KEY, worker, exited>>

handleSubscriptionUpdate_RelimitsJobs(u, i, status, priceId) ==
  /\ i \in 1..Len(subscriptions[u])
  /\ subscriptions' = [subscriptions EXCEPT ![u][i] =
                         Subscription(getPlanFromPriceId(priceId),
                                      IF status = "active" THEN "active" ELSE "past_due")]
  /\ jobs' = [t \in Tasks |->
               IF jobs[t].userId = u
               THEN [jobs[t] EXCEPT !.timeoutSeconds =
                       PLAN_LIMITS[getPlanFromPriceId(priceId)].maxDurationSeconds]
               ELSE jobs[t]]
  /\ lapsed' = IF status = "active" THEN lapsed \ {u} ELSE lapsed
  /\ UNCHANGED <<tasks, usage_records, containers, slots, charges, faults, starts, scope, concurrency, rejected, call, handled, INTERNAL_API_KEY, worker, exited>>

\* Webhook customer.subscription.updated: the record of that Stripe
\* subscription gets Stripe's status (active, else past_due) and plan.
handleSubscriptionUpdate(u, i, status, priceId) ==
  /\ i \in 1..Len(subscriptions[u])
  /\ subscriptions' = [subscriptions EXCEPT ![u][i] =
                         Subscription(getPlanFromPriceId(priceId),
                                      IF status = "active" THEN "active" ELSE "past_due")]
  /\ lapsed' = IF status = "active" THEN lapsed \ {u} ELSE lapsed
  /\ UNCHANGED <<tasks, usage_records, jobs, containers, slots, charges, faults, starts, scope, concurrency, rejected, call, handled, INTERNAL_API_KEY, worker, exited>>

\* Webhook customer.subscription.deleted: the record is set to canceled.
handleSubscriptionCanceled(u, i) ==
  /\ i \in 1..Len(subscriptions[u])
  /\ subscriptions' = [subscriptions EXCEPT ![u][i].status = "canceled"]
  /\ lapsed' = lapsed \cup {u}
  /\ UNCHANGED <<tasks, usage_records, jobs, containers, slots, charges, faults, starts, scope, concurrency, rejected, call, handled, INTERNAL_API_KEY, worker, exited>>

\* DockerManager.stopContainer: every container labelled with the task id is
\* stopped and then removed; stop rejects for a container that is not running.
stopContainer(t) ==
  IF containers[t] = "running" THEN [containers EXCEPT ![t] = "none"] ELSE containers

\* stopContainer: container.stop({t: 10}) of a listed container that is not
\* running (created and never started, or exited) is answered 304 by the
\* runtime, which dockerode turns into a rejection; the loop ends there.
stopRejects(t) == containers[t] \in {"created", "exited"}

CancelTask_MarksCanceled(t) ==
  /\ t \in scope
  /\ jobs[t].state # "active"
  /\ jobs[t].state # "absent" \/ containers[t] # "none"
  /\ jobs' = [jobs EXCEPT ![t] = NoJob]
  /\ containers' = stopContainer(t)
  /\ tasks' = [tasks EXCEPT ![t].status = IF @ = "absent" THEN @ ELSE "canceled"]
  /\ handled' =
       IF stopRejects(t)
       THEN Handled("DELETE /internal/tasks/:id", t, 500, "stop rejected", jobs[t].state)
       ELSE Handled("DELETE /internal/tasks/:id", t, 200,
                    IF containers[t] = "running" THEN "stopped" ELSE "no container",
                    jobs[t].state)
  /\ UNCHANGED <<subscriptions, usage_records, slots, charges, faults, starts, scope, concurrency, rejected, call, INTERNAL_API_KEY, worker, exited, lapsed>>

\* DELETE /internal/tasks/:id while no worker holds the task's job: the job,
\* if there is one, is removed from the queue; then stopContainer is called,
\* and the answer is 200, or 500 when stopContainer rejected. Requests are
\* made for tasks that have a job in the queue or a container.
CancelTask(t) ==
  /\ t \in scope
  /\ jobs[t].state # "active"
  /\ jobs[t].state # "absent" \/ containers[t] # "none"
  /\ jobs' = [jobs EXCEPT ![t] = NoJob]
  /\ containers' = stopContainer(t)
  /\ handled' =
       IF stopRejects(t)
       THEN Handled("DELETE /internal/tasks/:id", t, 500, "stop rejected", jobs[t].state)
       ELSE Handled("DELETE /internal/tasks/:id", t, 200,
                    IF containers[t] = "running" THEN "stopped" ELSE "no container",
                    jobs[t].state)
  /\ UNCHANGED <<tasks, subscriptions, usage_records, slots, charges, faults, starts, scope, concurrency, rejected, call, INTERNAL_API_KEY, worker, exited, lapsed>>

\* DELETE /internal/tasks/:id while a worker holds the task's job: bullmq's
\* job.remove() rejects for a job that is locked by a worker, so the handler
\* answers 500 from its catch block and never calls stopContainer.
CancelTaskLocked(t) ==
  /\ t \in scope
  /\ jobs[t].state = "active"
  /\ handled' = Handled("DELETE /internal/tasks/:id", t, 500, "job locked", "active")
  /\ UNCHANGED <<tasks, subscriptions, usage_records, jobs, containers, slots, charges, faults, starts, scope, concurrency, rejected, call, INTERNAL_API_KEY, worker, exited, lapsed>>

\* ------------------------------------------------------------- processTask
\* A free slot of the bullmq Worker takes a waiting job.
Dequeue(s, t) ==
  /\ slots[s].pc = "idle"
  /\ \A r \in Slots : slots[r].pc = "idle" => s <= r
  /\ Cardinality({r \in Slots : slots[r].pc # "idle"}) < concurrency
  /\ jobs[t].state = "waiting"
  /\ jobs' = [jobs EXCEPT ![t].state = "active"]
  /\ slots' = [slots EXCEPT ![s] = [IdleSlot EXCEPT !.pc = "updateRunning", !.task = t]]
  /\ UNCHANGED <<tasks, subscriptions, usage_records, containers, charges, faults, starts, scope, concurrency, rejected, call, handled, INTERNAL_API_KEY, worker, exited, lapsed>>

\* processTask: update(taskId, {status: 'running', startedAt}); the update of
\* a record that does not exist is rejected, and so may any other be.
UpdateRunning(s) ==
  /\ slots[s].pc = "updateRunning"
  /\ LET t == slots[s].task
     IN \/ /\ tasks[t].status # "absent"
           /\ tasks' = [tasks EXCEPT ![t].status = "running", ![t].startedAt = TRUE]
           /\ slots' = [slots EXCEPT ![s].pc = "pull"]
           /\ UNCHANGED <<jobs, faults>>
        \/ /\ IF tasks[t].status = "absent" THEN UNCHANGED faults ELSE Fault
           /\ Throw(s)
           /\ UNCHANGED tasks
  /\ UNCHANGED <<subscriptions, usage_records, containers, charges, starts, scope, concurrency, rejected, call, handled, INTERNAL_API_KEY, worker, exited, lapsed>>

\* runContainer: startTime = Date.now(), then pullImageIfNeeded(image).
\* The image is present (no delay), or it is pulled, which takes time and
\* can fail; a failed pull rejects runContainer and so processTask.
PullImage(s) ==
  /\ slots[s].pc = "pull"
  /\ \/ \E d \in {0, MaxPullSeconds} :
          /\ slots' = [slots EXCEPT ![s].pc = "create", ![s].elapsed = @ + d]
          /\ UNCHANGED <<jobs, faults>>
     \/ Fault /\ Throw(s)
  /\ UNCHANGED <<tasks, subscriptions, usage_records, containers, charges, starts, scope, concurrency, rejected, call, handled, INTERNAL_API_KEY, worker, exited, lapsed>>

CreateContainer_NoNameConflict(s) ==
  /\ slots[s].pc = "create"
  /\ LET t == slots[s].task
     IN \/ /\ containers' = [containers EXCEPT ![t] = "created"]
           /\ slots' = [slots EXCEPT ![s].pc = "start"]
           /\ UNCHANGED <<jobs, faults>>
        \/ /\ Fault
           /\ Throw(s)
           /\ UNCHANGED containers
  /\ UNCHANGED <<tasks, subscriptions, usage_records, charges, starts, scope, concurrency, rejected, call, handled, INTERNAL_API_KEY, worker, exited, lapsed>>

\* runContainer: docker.createContainer({name: saassy-task-<taskId>, ...});
\* it rejects when a container of that name exists or the runtime is down.
CreateContainer(s) ==
  /\ slots[s].pc = "create"
  /\ LET t == slots[s].task
     IN \/ /\ containers[t] = "none"
           /\ containers' = [containers EXCEPT ![t] = "created"]
           /\ slots' = [slots EXCEPT ![s].pc = "start"]
           /\ UNCHANGED <<jobs, faults>>
        \/ /\ IF containers[t] # "none" THEN UNCHANGED faults ELSE Fault
           /\ Throw(s)
           /\ UNCHANGED containers
  /\ UNCHANGED <<tasks, subscriptions, usage_records, charges, starts, scope, concurrency, rejected, call, handled, INTERNAL_API_KEY, worker, exited, lapsed>>

\* runContainer: container.start() inside the try block.
StartContainer(s) ==
  /\ slots[s].pc = "start"
  /\ LET t == slots[s].task
     IN \/ /\ containers' = [containers EXCEPT ![t] = "running"]
           /\ slots' = [slots EXCEPT ![s].pc = "race"]
           /\ UNCHANGED faults
        \/ /\ Fault
           /\ slots' = [slots EXCEPT ![s].pc = "catch"]
           /\ UNCHANGED containers
  /\ UNCHANGED <<tasks, subscriptions, usage_records, jobs, charges, starts, scope, concurrency, rejected, call, handled, INTERNAL_API_KEY, worker, exited, lapsed>>

\* How long the sandboxed program runs by itself: briefly, or up to and past
\* the timeout.
RunChoices(T) == (1..MaxRunSeconds) \cup {T + 1}

\* DockerManager.timeout against container.wait(): whichever settles first.
RaceWinners(ran, T) ==
  IF ran < T THEN {"wait"} ELSE IF ran > T THEN {"timeout"} ELSE {"wait", "timeout"}

\* runContainer: Promise.race([container.wait(), timeout(timeoutSeconds * 1000)]),
\* then endTime = Date.now() and durationSeconds.
Race(s) ==
  /\ slots[s].pc = "race"
  /\ LET t == slots[s].task
         T == jobs[t].timeoutSeconds
     IN \/ /\ \E ran \in RunChoices(T) : \E code \in ExitCodes :
                /\ "wait" \in RaceWinners(ran, T)
                /\ slots' = [slots EXCEPT ![s].pc = "logs", ![s].raced = "wait",
                                          ![s].StatusCode = code, ![s].elapsed = @ + ran]
           /\ containers' = [containers EXCEPT ![t] = "exited"]
           /\ exited' = exited \cup {t}
           /\ UNCHANGED faults
        \/ /\ \E ran \in RunChoices(T) : "timeout" \in RaceWinners(ran, T)
           /\ slots' = [slots EXCEPT ![s].pc = "logs", ![s].raced = "timeout",
                                     ![s].elapsed = @ + T]
           /\ UNCHANGED <<containers, faults, exited>>
        \/ /\ Fault                                       \* container.wait() rejects
           /\ slots' = [slots EXCEPT ![s].pc = "catch"]
           /\ UNCHANGED <<containers, exited>>
  /\ UNCHANGED <<tasks, subscriptions, usage_records, jobs, charges, starts, scope, concurrency, rejected, call, handled, INTERNAL_API_KEY, worker, lapsed>>

\* runContainer: container.logs({stdout, stderr}) and toString('utf8').
Logs(s) ==
  /\ slots[s].pc = "logs"
  /\ \/ /\ \E out \in SandboxOutputs :
             slots' = [slots EXCEPT ![s].pc = "remove", ![s].logs = out]
        /\ UNCHANGED faults
     \/ /\ Fault
        /\ slots' = [slots EXCEPT ![s].pc = "catch"]
  /\ UNCHANGED <<tasks, subscriptions, usage_records, jobs, containers, charges, starts, scope, concurrency, rejected, call, handled, INTERNAL_API_KEY, worker, exited, lapsed>>

\* runContainer: the result of the try block, after the container is removed.
TryResult(slot, limits) ==
  IF slot.raced = "timeout"
  THEN [exitCode |-> TimeoutExitCode, output |-> slot.logs,
        error |-> TimeoutError(limits.timeoutSeconds),
        resourceUsage |-> ResourceUsage(slot.elapsed, limits.cpuLimit, MemoryMb(limits.memoryLimit))]
  ELSE [exitCode |-> slot.StatusCode, output |-> slot.logs,
        error |-> IF slot.StatusCode # 0 THEN ExitCodeError(slot.StatusCode) ELSE Undefined,
        resourceUsage |-> ResourceUsage(slot.elapsed, limits.cpuLimit, MemoryMb(limits.memoryLimit))]

\* runContainer: the result of the catch block.
CatchResult(slot, limits) ==
  [exitCode |-> CatchExitCode, output |-> <<>>, error |-> RuntimeError,
   resourceUsage |-> ResourceUsage(slot.elapsed, limits.cpuLimit, 0)]

\* runContainer: container.remove({force: true}) of the try block, then return.
Remove(s) ==
  /\ slots[s].pc = "remove"
  /\ LET t == slots[s].task
     IN \/ /\ containers' = [containers EXCEPT ![t] = "none"]
           /\ slots' = [slots EXCEPT ![s].pc = "updateTerminal",
                                     ![s].result = TryResult(slots[s], jobs[t])]
           /\ UNCHANGED faults
        \/ /\ Fault
           /\ slots' = [slots EXCEPT ![s].pc = "catch"]
           /\ UNCHANGED containers
  /\ UNCHANGED <<tasks, subscriptions, usage_records, jobs, charges, starts, scope, concurrency, rejected, call, handled, INTERNAL_API_KEY, worker, exited, lapsed>>

\* runContainer: the catch block; its own remove may fail and is ignored.
Catch(s) ==
  /\ slots[s].pc = "catch"
  /\ LET t == slots[s].task
     IN /\ \/ containers' = [containers EXCEPT ![t] = "none"] /\ UNCHANGED faults
           \/ Fault /\ UNCHANGED containers
        /\ slots' = [slots EXCEPT ![s].pc = "updateTerminal", ![s].caught = TRUE,
                                  ![s].result = CatchResult(slots[s], jobs[t])]
  /\ UNCHANGED <<tasks, subscriptions, usage_records, jobs, charges, starts, scope, concurrency, rejected, call, handled, INTERNAL_API_KEY, worker, exited, lapsed>>

StatusOf_NotMinusOne(result) == IF result.exitCode # -1 THEN "completed" ELSE "failed"

\* processTask: status from the exit code.
StatusOf(result) == IF result.exitCode = 0 THEN "completed" ELSE "failed"

TerminalPatch_ParseFailureFails(rec, t, result) ==
  [rec EXCEPT !.status = IF JsonParses(result.output) THEN StatusOf(result) ELSE "failed",
              !.output = tryParseJson(result.output),
              !.error = IF result.error = Undefined THEN @ ELSE result.error,
              !.workerId = t,
              !.completedAt = TRUE,
              !.resourceUsage = result.resourceUsage]

\* processTask: the patch sent to update(taskId, {...}). JSON drops a field
\* whose value is undefined, so an undefined error leaves the stored one.
TerminalPatch(rec, t, result) ==
  [rec EXCEPT !.status = StatusOf(result),
              !.output = tryParseJson(result.output),
              !.error = IF result.error = Undefined THEN @ ELSE result.error,
              !.workerId = t,
              !.completedAt = TRUE,
              !.resourceUsage = result.resourceUsage]

UpdateTerminal_NoUsageForFailed(s) ==
  /\ slots[s].pc = "updateTerminal"
  /\ LET t == slots[s].task
     IN \/ /\ tasks[t].status # "absent"
           /\ tasks' = [tasks EXCEPT ![t] = TerminalPatch(@, t, slots[s].result)]
           /\ slots' = IF slots[s].result.exitCode = 0
                        THEN [slots EXCEPT ![s].pc = "usageGet", ![s].calls = @ + 1]
                        ELSE [slots EXCEPT ![s].pc = "return"]
           /\ UNCHANGED <<jobs, faults>>
        \/ /\ Fault
           /\ Throw(s)
           /\ UNCHANGED tasks
  /\ UNCHANGED <<subscriptions, usage_records, containers, charges, starts, scope, concurrency, rejected, call, handled, INTERNAL_API_KEY, worker, exited, lapsed>>

\* processTask: update(taskId, {status, output, error, workerId, completedAt,
\* resourceUsage}); then recordUsage is called.
UpdateTerminal(s) ==
  /\ slots[s].pc = "updateTerminal"
  /\ LET t == slots[s].task
     IN \/ /\ tasks[t].status # "absent"
           /\ tasks' = [tasks EXCEPT ![t] = TerminalPatch(@, t, slots[s].result)]
           /\ slots' = [slots EXCEPT ![s].pc = "usageGet", ![s].calls = @ + 1]
           /\ UNCHANGED <<jobs, faults>>
        \/ /\ Fault
           /\ Throw(s)
           /\ UNCHANGED tasks
  /\ UNCHANGED <<subscriptions, usage_records, containers, charges, starts, scope, concurrency, rejected, call, handled, INTERNAL_API_KEY, worker, exited, lapsed>>

FirstOf_AnyPeriod(user) ==
  LET hits == {i \in 1..Len(usage_records) : usage_records[i].user = user}
  IN IF hits = {} THEN 0 ELSE CHOOSE i \in hits : \A j \in hits : i <= j

\* recordUsage: getList(1, 1, {filter: user = userId && period = period}).
FirstOf(user) ==
  LET hits == {i \in 1..Len(usage_records) :
                 usage_records[i].user = user /\ usage_records[i].period = period}
  IN IF hits = {} THEN 0 ELSE CHOOSE i \in hits : \A j \in hits : i <= j

\* recordUsage: existing.items[0], the record as it was read.
Existing(user) ==
  LET i == FirstOf(user)
  IN IF i = 0 THEN NoRecord
     ELSE [id |-> i, cpuSeconds |-> usage_records[i].cpuSeconds,
           memoryMbSeconds |-> usage_records[i].memoryMbSeconds,
           taskCount |-> usage_records[i].taskCount]

UsageGet_Rethrows(s) ==
  /\ slots[s].pc = "usageGet"
  /\ \/ /\ slots' = [slots EXCEPT ![s].pc = "usageWrite",
                                  ![s].existing = Existing(jobs[slots[s].task].userId)]
        /\ UNCHANGED <<jobs, faults>>
     \/ Fault /\ Throw(s)
  /\ UNCHANGED <<tasks, subscriptions, usage_records, containers, charges, starts, scope, concurrency, rejected, call, handled, INTERNAL_API_KEY, worker, exited, lapsed>>

UsageGet(s) ==
  /\ slots[s].pc = "usageGet"
  /\ \/ /\ slots' = [slots EXCEPT ![s].pc = "usageWrite",
                                  ![s].existing = Existing(jobs[slots[s].task].userId)]
        /\ UNCHANGED faults
     \/ /\ Fault                                          \* caught and logged
        /\ slots' = [slots EXCEPT ![s].pc = "return"]
  /\ UNCHANGED <<tasks, subscriptions, usage_records, jobs, containers, charges, starts, scope, concurrency, rejected, call, handled, INTERNAL_API_KEY, worker, exited, lapsed>>

UsageWrite_NoUniqueIndex(s) ==
  /\ slots[s].pc = "usageWrite"
  /\ LET t == slots[s].task
         u == jobs[t].userId
         record == slots[s].existing
         usage == slots[s].result.resourceUsage
     IN \/ /\ record.id # 0
           /\ usage_records' = [usage_records EXCEPT ![record.id] =
                [@ EXCEPT !.cpuSeconds = record.cpuSeconds + usage.cpuSeconds,
                          !.memoryMbSeconds = record.memoryMbSeconds + usage.memoryMbSeconds,
                          !.taskCount = record.taskCount + 1]]
           /\ charges' = [charges EXCEPT ![t] = @ + 1]
           /\ UNCHANGED faults
        \/ /\ record.id = 0
           /\ usage_records' = Append(usage_records,
                [user |-> u, task |-> t, period |-> period,
                 cpuSeconds |-> usage.cpuSeconds,
                 memoryMbSeconds |-> usage.memoryMbSeconds, taskCount |-> 1,
                 costCents |-> 0])
           /\ charges' = [charges EXCEPT ![t] = @ + 1]
           /\ UNCHANGED faults
        \/ /\ Fault
           /\ UNCHANGED <<usage_records, charges>>
  /\ slots' = [slots EXCEPT ![s].pc = "return"]
  /\ UNCHANGED <<tasks, subscriptions, jobs, containers, starts, scope, concurrency, rejected, call, handled, INTERNAL_API_KEY, worker, exited, lapsed>>

\* recordUsage: update of the record that was read, or create of a new one
\* (rejected by the unique index on (user, period) when one exists by now).
UsageWrite(s) ==
  /\ slots[s].pc = "usageWrite"
  /\ LET t == slots[s].task
         u == jobs[t].userId
         record == slots[s].existing
         usage == slots[s].result.resourceUsage
     IN \/ /\ record.id # 0
           /\ usage_records' = [usage_records EXCEPT ![record.id] =
                [@ EXCEPT !.cpuSeconds = record.cpuSeconds + usage.cpuSeconds,
                          !.memoryMbSeconds = record.memoryMbSeconds + usage.memoryMbSeconds,
                          !.taskCount = record.taskCount + 1]]
           /\ charges' = [charges EXCEPT ![t] = @ + 1]
           /\ UNCHANGED faults
        \/ /\ record.id = 0
           /\ FirstOf(u) = 0
           /\ usage_records' = Append(usage_records,
                [user |-> u, task |-> t, period |-> period,
                 cpuSeconds |-> usage.cpuSeconds,
                 memoryMbSeconds |-> usage.memoryMbSeconds, taskCount |-> 1,
                 costCents |-> 0])
           /\ charges' = [charges EXCEPT ![t] = @ + 1]
           /\ UNCHANGED faults
        \/ /\ IF record.id = 0 /\ FirstOf(u) # 0 THEN UNCHANGED faults ELSE Fault
           /\ UNCHANGED <<usage_records, charges>>        \* caught and logged
  /\ slots' = [slots EXCEPT ![s].pc = "return"]
  /\ UNCHANGED <<tasks, subscriptions, jobs, containers, starts, scope, concurrency, rejected, call, handled, INTERNAL_API_KEY, worker, exited, lapsed>>

Return_ThrowsAfterUsage(s) ==
  /\ slots[s].pc = "return"
  /\ \/ /\ jobs' = [jobs EXCEPT ![slots[s].task].state = "completed"]
        /\ slots' = [slots EXCEPT ![s] = IdleSlot]
        /\ UNCHANGED faults
     \/ Fault /\ Throw(s)
  /\ UNCHANGED <<tasks, subscriptions, usage_records, containers, charges, starts, scope, concurrency, rejected, call, handled, INTERNAL_API_KEY, worker, exited, lapsed>>

\* processTask returns its result: bullmq moves the job to completed.
Return(s) ==
  /\ slots[s].pc = "return"
  /\ jobs' = [jobs EXCEPT ![slots[s].task].state = "completed"]
  /\ slots' = [slots EXCEPT ![s] = IdleSlot]
  /\ UNCHANGED <<tasks, subscriptions, usage_records, containers, charges, faults, starts, scope, concurrency, rejected, call, handled, INTERNAL_API_KEY, worker, exited, lapsed>>

\* The worker process dies or stalls while a job is active: the invocation is
\* gone, the queue's stalled-job check takes the job back.
Crash(s) ==
  /\ slots[s].pc # "idle"
  /\ Fault
  /\ jobs' = [jobs EXCEPT ![slots[s].task] = moveStalledJobsToWait(@)]
  /\ slots' = [slots EXCEPT ![s] = IdleSlot]
  /\ UNCHANGED <<tasks, subscriptions, usage_records, containers, charges, starts, scope, concurrency, rejected, call, handled, INTERNAL_API_KEY, worker, exited, lapsed>>

Next ==
  \/ \E t \in Tasks, u \in Users, type \in RequestTypes : CreateTask(t, u, type)
  \/ \E t \in Tasks, u \in Users, type \in RequestTypes, plan \in RequestPlans, ok \in BOOLEAN :
       StartTask(t, u, type, plan, ok)
  \/ \E t \in Tasks : CancelTask(t)
  \/ \E s \in Slots, t \in Tasks : Dequeue(s, t)
  \/ \E s \in Slots : UpdateRunning(s)
  \/ \E s \in Slots : PullImage(s)
  \/ \E s \in Slots : CreateContainer(s)
  \/ \E s \in Slots : StartContainer(s)
  \/ \E s \in Slots : Race(s)
  \/ \E s \in Slots : Logs(s)
  \/ \E s \in Slots : Remove(s)
  \/ \E s \in Slots : Catch(s)
  \/ \E s \in Slots : UpdateTerminal(s)
  \/ \E s \in Slots : UsageGet(s)
  \/ \E s \in Slots : UsageWrite(s)
  \/ \E s \in Slots : Return(s)
  \/ \E s \in Slots : Crash(s)

Spec == Init /\ [][Next]_vars

\* A run in which at most two calls fail, fewer than the attempts of a job,
\* so the queue never gives a job up; the owner has no subscription.
FewFaultsInit ==
  /\ tasks = [t \in Tasks |-> NoTaskRecord]
  /\ subscriptions = [u \in Users |-> <<>>]
  /\ usage_records = PriorUsage
  /\ jobs = [t \in Tasks |-> NoJob]
  /\ containers = [t \in Tasks |-> "none"]
  /\ slots = [s \in Slots |-> IdleSlot]
  /\ charges = [t \in Tasks |-> 0]
  /\ faults = 2
  /\ starts = 0
  /\ scope = {"t1"}
  /\ concurrency = 1
  /\ rejected = NoRejection
  /\ call = NoCall
  /\ handled = NoRequest
  /\ INTERNAL_API_KEY = ConfiguredKey
  /\ worker = NoWorker
  /\ exited = {}
  /\ lapsed = {}

FewFaultsSpec == FewFaultsInit /\ [][Next]_vars

\* One step of a worker slot; the worker keeps running the jobs it holds.
SlotStep(s) ==
  \/ \E t \in Tasks : Dequeue(s, t)
  \/ UpdateRunning(s) \/ PullImage(s) \/ CreateContainer(s) \/ StartContainer(s)
  \/ Race(s) \/ Logs(s) \/ Remove(s) \/ Catch(s) \/ UpdateTerminal(s)
  \/ UsageGet(s) \/ UsageWrite(s) \/ Return(s)

\* The system while the worker process stays up and nobody cancels: requests
\* that create and start tasks, and the steps of the worker's slots.
Processing ==
  \/ \E t \in Tasks, u \in Users, type \in RequestTypes : CreateTask(t, u, type)
  \/ \E t \in Tasks, u \in Users, type \in RequestTypes, plan \in RequestPlans, ok \in BOOLEAN :
       StartTask(t, u, type, plan, ok)
  \/ \E s \in Slots : SlotStep(s)

\* A worker that stays up runs every job it holds to the end of the attempt.
FairSpec == Init /\ [][Processing]_vars /\ \A s \in Slots : WF_vars(SlotStep(s))

canCreateTask_NoOverage(plan, currentMonthTasks, currentConcurrent) ==
  LET limits == PLAN_LIMITS[plan]
  IN IF limits.tasksPerMonth # -1 /\ currentMonthTasks >= limits.tasksPerMonth
     THEN [allowed |-> FALSE, reason |-> "Monthly task limit reached. Upgrade to continue."]
     ELSE IF currentConcurrent >= limits.maxConcurrent
     THEN [allowed |-> FALSE, reason |-> "Maximum concurrent tasks reached."]
     ELSE [allowed |-> TRUE, reason |-> "undefined"]

\* canCreateTask of the shared package: the monthly limit stops the free plan
\* only, the concurrent limit stops every plan.
canCreateTask(plan, currentMonthTasks, currentConcurrent) ==
  LET limits == PLAN_LIMITS[plan]
  IN IF /\ limits.tasksPerMonth # -1
        /\ currentMonthTasks >= limits.tasksPerMonth
        /\ plan = "free"
     THEN [allowed |-> FALSE, reason |-> "Monthly task limit reached. Upgrade to continue."]
     ELSE IF currentConcurrent >= limits.maxConcurrent
     THEN [allowed |-> FALSE, reason |-> "Maximum concurrent tasks reached."]
     ELSE [allowed |-> TRUE, reason |-> "undefined"]

\* A caller that passes a plan and two counts to canCreateTask.
ValidationInit ==
  /\ tasks = [t \in Tasks |-> NoTaskRecord]
  /\ subscriptions = [u \in Users |-> <<>>]
  /\ usage_records = PriorUsage
  /\ jobs = [t \in Tasks |-> NoJob]
  /\ containers = [t \in Tasks |-> "none"]
  /\ slots = [s \in Slots |-> IdleSlot]
  /\ charges = [t \in Tasks |-> 0]
  /\ faults = 0
  /\ starts = 0
  /\ scope = {}
  /\ concurrency = 1
  /\ rejected = NoRejection
  /\ handled = NoRequest
  /\ INTERNAL_API_KEY = ConfiguredKey
  /\ worker = NoWorker
  /\ exited = {}
  /\ lapsed = {}
  /\ \E plan \in VALID_PLANS, currentMonthTasks \in 0..MaxMonthTasks,
        currentConcurrent \in 0..MaxConcurrentTasks :
       call = [NoCall EXCEPT !.pc = "called", !.plan = plan,
                             !.currentMonthTasks = currentMonthTasks,
                             !.currentConcurrent = currentConcurrent]

CallCanCreateTask ==
  /\ call.pc = "called"
  /\ call' = [call EXCEPT !.pc = "returned",
                          !.returned = canCreateTask(call.plan, call.currentMonthTasks,
                                                     call.currentConcurrent)]
  /\ UNCHANGED <<tasks, subscriptions, usage_records, jobs, containers, slots, charges, faults, starts, scope, concurrency, rejected, handled, INTERNAL_API_KEY, worker, exited, lapsed>>

ValidationSpec == ValidationInit /\ [][CallCanCreateTask]_vars

\* The routes that admit tasks, with the requests they turn down, in front
\* of a worker that stays up.
Admission ==
  \/ Processing
  \/ \E u \in Users, type \in RequestTypes : CreateTaskRejected(u, type)
  \/ \E t \in Tasks, u \in Users, type \in RequestTypes : StartTaskRejected(t, u, type)

AdmissionSpec == Init /\ [][Admission]_vars

\* A user without a subscription (free tier) whose usage record of the month
\* already counts as many tasks as the free plan includes.
QuotaInit ==
  /\ tasks = [t \in Tasks |-> NoTaskRecord]
  /\ subscriptions = [u \in Users |-> <<>>]
  /\ usage_records = Append(PriorUsage,
        [user |-> "u1", task |-> "t0", period |-> period, cpuSeconds |-> 10,
         memoryMbSeconds |-> 5120, taskCount |-> PLAN_LIMITS.free.tasksPerMonth,
         costCents |-> 0])
  /\ jobs = [t \in Tasks |-> NoJob]
  /\ containers = [t \in Tasks |-> "none"]
  /\ slots = [s \in Slots |-> IdleSlot]
  /\ charges = [t \in Tasks |-> 0]
  /\ faults = MaxFaults
  /\ starts = 0
  /\ scope = {"t1"}
  /\ concurrency = 1
  /\ rejected = NoRejection
  /\ call = NoCall
  /\ handled = NoRequest
  /\ INTERNAL_API_KEY = ConfiguredKey
  /\ worker = NoWorker
  /\ exited = {}
  /\ lapsed = {}

QuotaSpec == QuotaInit /\ [][Admission]_vars

\* A user without a subscription yet; one call may fail in the run.
BillingInit ==
  /\ tasks = [t \in Tasks |-> NoTaskRecord]
  /\ subscriptions = [u \in Users |-> <<>>]
  /\ usage_records = PriorUsage
  /\ jobs = [t \in Tasks |-> NoJob]
  /\ containers = [t \in Tasks |-> "none"]
  /\ slots = [s \in Slots |-> IdleSlot]
  /\ charges = [t \in Tasks |-> 0]
  /\ faults = 1
  /\ starts = 0
  /\ scope = {"t1"}
  /\ concurrency = 1
  /\ rejected = NoRejection
  /\ call = NoCall
  /\ handled = NoRequest
  /\ INTERNAL_API_KEY = ConfiguredKey
  /\ worker = NoWorker
  /\ exited = {}
  /\ lapsed = {}

\* The Stripe webhooks change subscriptions while tasks are admitted and run.
Billing ==
  \/ Processing
  \/ \E u \in Users, priceId \in Prices : handleCheckoutComplete(u, priceId)
  \/ \E u \in Users, i \in 1..MaxSubscriptions, status \in StripeStatuses, priceId \in Prices :
       handleSubscriptionUpdate(u, i, status, priceId)
  \/ \E u \in Users, i \in 1..MaxSubscriptions : handleSubscriptionCanceled(u, i)

BillingSpec == BillingInit /\ [][Billing]_vars

\* The dispatch API in front of the worker: start requests, also repeated
\* ones, and cancel requests at any moment of a task's processing. One call
\* to the store or the runtime may be rejected, or the worker may die once.
\* The owner has an active starter subscription.
DispatchInit ==
  /\ tasks = [t \in Tasks |-> NoTaskRecord]
  /\ subscriptions = [u \in Users |-> <<Subscription("starter", "active")>>]
  /\ usage_records = PriorUsage
  /\ jobs = [t \in Tasks |-> NoJob]
  /\ containers = [t \in Tasks |-> "none"]
  /\ slots = [s \in Slots |-> IdleSlot]
  /\ charges = [t \in Tasks |-> 0]
  /\ faults = 1
  /\ starts = 0
  /\ scope = {"t1"}
  /\ concurrency = 1
  /\ rejected = NoRejection
  /\ call = NoCall
  /\ handled = NoRequest
  /\ INTERNAL_API_KEY = ConfiguredKey
  /\ worker = NoWorker
  /\ exited = {}
  /\ lapsed = {}

Dispatch ==
  \/ Next
  \/ \E t \in Tasks, u \in Users, type \in RequestTypes, plan \in RequestPlans, ok \in BOOLEAN :
       StartTaskAgain(t, u, type, plan, ok)
  \/ \E t \in Tasks : CancelTaskLocked(t)

DispatchSpec == DispatchInit /\ [][Dispatch]_vars

\* A task that was submitted and started: its job waits in the queue. Cancel
\* requests and further start requests for it arrive while the worker runs;
\* one call may be rejected or the worker may die once.
CancelInit ==
  /\ subscriptions = [u \in Users |-> <<Subscription("starter", "active")>>]
  /\ tasks = [t \in Tasks |->
                IF t = "t1"
                THEN [NoTaskRecord EXCEPT !.status = "pending", !.user = "u1",
                                          !.type = "test-worker"]
                ELSE NoTaskRecord]
  /\ jobs = [t \in Tasks |->
               IF t = "t1"
               THEN [state |-> "waiting", attemptsMade |-> 0, stalledCount |-> 0,
                     userId |-> "u1", type |-> "test-worker",
                     workerImage |-> getWorkerImage("test-worker"),
                     cpuLimit |-> cpuLimit, memoryLimit |-> memoryLimitMb,
                     timeoutSeconds |-> PLAN_LIMITS[PlanOf("u1", TRUE)].maxDurationSeconds]
               ELSE NoJob]
  /\ usage_records = PriorUsage
  /\ containers = [t \in Tasks |-> "none"]
  /\ slots = [s \in Slots |-> IdleSlot]
  /\ charges = [t \in Tasks |-> 0]
  /\ faults = 1
  /\ starts = 0
  /\ scope = {"t1"}
  /\ concurrency = 1
  /\ rejected = NoRejection
  /\ call = NoCall
  /\ handled = NoRequest
  /\ INTERNAL_API_KEY = ConfiguredKey
  /\ worker = NoWorker
  /\ exited = {}
  /\ lapsed = {}

Cancellation ==
  \/ \E t \in Tasks, u \in Users, type \in RequestTypes, plan \in RequestPlans, ok \in BOOLEAN :
       StartTask(t, u, type, plan, ok)
  \/ \E t \in Tasks, u \in Users, type \in RequestTypes, plan \in RequestPlans, ok \in BOOLEAN :
       StartTaskAgain(t, u, type, plan, ok)
  \/ \E t \in Tasks : CancelTask(t)
  \/ \E t \in Tasks : CancelTaskLocked(t)
  \/ \E s \in Slots : SlotStep(s)
  \/ \E s \in Slots : Crash(s)

CancelSpec == CancelInit /\ [][Cancellation]_vars

\* The same, with a worker that stays up and runs every job it holds to the
\* end of the attempt.
CancelProcessing ==
  \/ \E t \in Tasks, u \in Users, type \in RequestTypes, plan \in RequestPlans, ok \in BOOLEAN :
       StartTask(t, u, type, plan, ok)
  \/ \E t \in Tasks, u \in Users, type \in RequestTypes, plan \in RequestPlans, ok \in BOOLEAN :
       StartTaskAgain(t, u, type, plan, ok)
  \/ \E t \in Tasks : CancelTask(t)
  \/ \E t \in Tasks : CancelTaskLocked(t)
  \/ \E s \in Slots : SlotStep(s)

FairCancelSpec ==
  CancelInit /\ [][CancelProcessing]_vars /\ \A s \in Slots : WF_vars(SlotStep(s))

\* A worker with one slot (MAX_CONCURRENT_WORKERS = 1) and two tasks: the job
\* of the first waits in the queue, the second is yet to be submitted. One
\* call may be rejected, or the worker may die once.
LeakInit ==
  /\ subscriptions = [u \in Users |-> <<>>]
  /\ tasks = [t \in Tasks |->
                IF t = "t1"
                THEN [NoTaskRecord EXCEPT !.status = "pending", !.user = "u1",
                                          !.type = "test-worker"]
                ELSE NoTaskRecord]
  /\ jobs = [t \in Tasks |->
               IF t = "t1"
               THEN [state |-> "waiting", attemptsMade |-> 0, stalledCount |-> 0,
                     userId |-> "u1", type |-> "test-worker",
                     workerImage |-> getWorkerImage("test-worker"),
                     cpuLimit |-> cpuLimit, memoryLimit |-> memoryLimitMb,
                     timeoutSeconds |-> PLAN_LIMITS[PlanOf("u1", TRUE)].maxDurationSeconds]
               ELSE NoJob]
  /\ usage_records = PriorUsage
  /\ containers = [t \in Tasks |-> "none"]
  /\ slots = [s \in Slots |-> IdleSlot]
  /\ charges = [t \in Tasks |-> 0]
  /\ faults = 1
  /\ starts = 0
  /\ scope = Tasks
  /\ concurrency = 1
  /\ rejected = NoRejection
  /\ call = NoCall
  /\ handled = NoRequest
  /\ INTERNAL_API_KEY = ConfiguredKey
  /\ worker = NoWorker
  /\ exited = {}
  /\ lapsed = {}

LeakSpec == LeakInit /\ [][Next]_vars

\* ------------------------------------------------- the internal routes' key
\* The values of the x-api-key header of a request ("undefined": no header).
ApiKeys == {"undefined", ConfiguredKey, "dev-secret-key"}

InternalRoutes ==
  {"POST /internal/tasks/start", "DELETE /internal/tasks/:id", "GET /internal/workers/status"}

authMiddleware_DefaultKey(apiKey) ==
  LET key == IF INTERNAL_API_KEY = "undefined" THEN "dev-secret-key" ELSE INTERNAL_API_KEY
  IN IF apiKey # key THEN 401 ELSE 0

\* router.use(...): the status the middleware answers, or 0 when it calls
\* next(). An unset (or empty) INTERNAL_API_KEY answers 500 to every request.
authMiddleware(apiKey) ==
  IF INTERNAL_API_KEY = "undefined" THEN 500
  ELSE IF apiKey # INTERNAL_API_KEY THEN 401
  ELSE 0

\* The middleware answered the request itself: no route handler runs.
Unauthorized(route, status) ==
  /\ rejected' = [route |-> route, status |-> status,
                  error |-> IF status = 500 THEN "Server configuration error" ELSE "Unauthorized",
                  type |-> "none"]
  /\ UNCHANGED <<tasks, subscriptions, usage_records, jobs, containers, slots, charges, faults, starts, scope, concurrency, call, handled, INTERNAL_API_KEY, worker, exited, lapsed>>

\* GET /internal/workers/status: reads the running containers and the job
\* counts of the queue and answers them; it writes nothing.
WorkerStatus ==
  /\ handled' = Handled("GET /internal/workers/status", "none", 200, "read only", "none")
  /\ UNCHANGED <<tasks, subscriptions, usage_records, jobs, containers, slots, charges, faults, starts, scope, concurrency, rejected, call, INTERNAL_API_KEY, worker, exited, lapsed>>

\* A request to the router of createRoutes: the middleware first, then the
\* handler of the route.
InternalRequest(apiKey, route, t, u, type, plan) ==
  IF authMiddleware(apiKey) # 0
  THEN Unauthorized(route, authMiddleware(apiKey))
  ELSE CASE route = "POST /internal/tasks/start" ->
              \/ StartTask(t, u, type, plan, TRUE)
              \/ StartTaskAgain(t, u, type, plan, TRUE)
              \/ StartTaskRejected(t, u, type)
         [] route = "DELETE /internal/tasks/:id" ->
              CancelTask(t) \/ CancelTaskLocked(t)
         [] route = "GET /internal/workers/status" ->
              WorkerStatus

\* The worker manager with its key set or not set. A worker that died has
\* left the container of the running task t1 behind, and the queue has taken
\* the job back; requests with and without the right key arrive, and one more
\* job may be added to the queue.
AuthInit ==
  /\ subscriptions = [u \in Users |-> <<>>]
  /\ tasks = [t \in Tasks |->
                IF t = "t1"
                THEN [NoTaskRecord EXCEPT !.status = "running", !.startedAt = TRUE,
                                          !.user = "u1", !.type = "test-worker"]
                ELSE NoTaskRecord]
  /\ jobs = [t \in Tasks |->
               IF t = "t1"
               THEN [state |-> "waiting", attemptsMade |-> 0, stalledCount |-> 1,
                     userId |-> "u1", type |-> "test-worker",
                     workerImage |-> getWorkerImage("test-worker"),
                     cpuLimit |-> cpuLimit, memoryLimit |-> memoryLimitMb,
                     timeoutSeconds |-> PLAN_LIMITS[PlanOf("u1", TRUE)].maxDurationSeconds]
               ELSE NoJob]
  /\ usage_records = PriorUsage
  /\ containers = [t \in Tasks |-> IF t = "t1" THEN "running" ELSE "none"]
  /\ slots = [s \in Slots |-> IdleSlot]
  /\ charges = [t \in Tasks |-> 0]
  /\ faults = 0
  /\ starts = MaxStarts - 1
  /\ scope = {"t1"}
  /\ concurrency = 1
  /\ rejected = NoRejection
  /\ call = NoCall
  /\ handled = NoRequest
  /\ INTERNAL_API_KEY \in {"undefined", ConfiguredKey}
  /\ worker = NoWorker
  /\ exited = {}
  /\ lapsed = {}

Authenticated ==
  \/ \E apiKey \in ApiKeys, route \in InternalRoutes, t \in scope, u \in Users,
        type \in RequestTypes :
       InternalRequest(apiKey, route, t, u, type, "free")
  \/ \E s \in Slots, t \in Tasks : Dequeue(s, t)
  \/ \E s \in Slots :
       \/ UpdateRunning(s) \/ PullImage(s) \/ CreateContainer(s) \/ StartContainer(s)
       \/ Race(s) \/ Logs(s) \/ Remove(s) \/ UpdateTerminal(s)
       \/ UsageGet(s) \/ UsageWrite(s) \/ Return(s)

AuthSpec == AuthInit /\ [][Authenticated]_vars

\* ------------------------------------------- the userId of a start request
\* The users the record store knows; a start request names any of them.
Accounts == {"u1", "u2"}

\* The task t1 of user u1 has been submitted; start requests for it arrive
\* with the userId of either account, and nothing fails.
OwnerInit ==
  /\ subscriptions = [u \in Accounts |-> <<>>]
  /\ tasks = [t \in Tasks |->
                IF t = "t1"
                THEN [NoTaskRecord EXCEPT !.status = "pending", !.user = "u1",
                                          !.type = "test-worker"]
                ELSE NoTaskRecord]
  /\ jobs = [t \in Tasks |-> NoJob]
  /\ usage_records = PriorUsage
  /\ containers = [t \in Tasks |-> "none"]
  /\ slots = [s \in Slots |-> IdleSlot]
  /\ charges = [t \in Tasks |-> 0]
  /\ faults = 0
  /\ starts = 0
  /\ scope = {"t1"}
  /\ concurrency = 1
  /\ rejected = NoRejection
  /\ call = NoCall
  /\ handled = NoRequest
  /\ INTERNAL_API_KEY = ConfiguredKey
  /\ worker = NoWorker
  /\ exited = {}
  /\ lapsed = {}

StartedForAnyone ==
  \/ \E t \in Tasks, u \in Accounts, type \in RequestTypes, plan \in RequestPlans :
       StartTask(t, u, type, plan, TRUE)
  \/ \E s \in Slots, t \in Tasks : Dequeue(s, t)
  \/ \E s \in Slots :
       \/ UpdateRunning(s) \/ PullImage(s) \/ CreateContainer(s) \/ StartContainer(s)
       \/ Race(s) \/ Logs(s) \/ Remove(s) \/ UpdateTerminal(s)
       \/ UsageGet(s) \/ UsageWrite(s) \/ Return(s)

OwnerSpec == OwnerInit /\ [][StartedForAnyone]_vars

\* ------------------------------------------------------- the test worker
\* The program in the sandbox of a 'test-worker' task: JSON in TASK_INPUT,
\* one JSON object on standard output, and an exit status.
MaxNumbers == 3         \* longest numbers array of a math request

NumberValues == {-1, 0, 2, 5}

RECURSIVE NumberListsOf(_)
NumberListsOf(n) ==
  IF n = 0 THEN {<<>>}
  ELSE LET shorter == NumberListsOf(n - 1)
       IN shorter \cup {Append(l, v) : l \in {k \in shorter : Len(k) = n - 1}, v \in NumberValues}

NumberLists == NumberListsOf(MaxNumbers)

MathActions == {"add", "subtract", "multiply", "divide", "power", "factorial"}

\* The exitCode field of a fail request (0: the field is missing or 0).
FailExitCodes == {0, 1, 42, 256}

\* TASK_INPUT: text that is not JSON, the JSON text null, or a JSON object
\* with the fields the operations read (hasNumbers, hasText: the field is
\* there).
BlankInput ==
  [text |-> "object", operation |-> "undefined", action |-> "undefined",
   hasNumbers |-> FALSE, numbers |-> <<>>, hasText |-> FALSE, seconds |-> 0,
   exitCode |-> 0]

TaskInputs ==
  {[BlankInput EXCEPT !.text = x] : x \in {"not json", "null"}}
  \cup {[BlankInput EXCEPT !.operation = o] : o \in {"undefined", "unknown_op", "echo"}}
  \cup {[BlankInput EXCEPT !.operation = "math", !.action = a] : a \in MathActions \cup {"modulo"}}
  \cup {[BlankInput EXCEPT !.operation = "math", !.action = a, !.hasNumbers = TRUE, !.numbers = l] :
          a \in MathActions \cup {"modulo"}, l \in NumberLists}
  \cup {[BlankInput EXCEPT !.operation = "transform", !.action = a, !.hasText = h] :
          a \in {"uppercase", "rot13"}, h \in BOOLEAN}
  \cup {[BlankInput EXCEPT !.operation = "delay", !.seconds = d] : d \in {-1, 1, 301}}
  \cup {[BlankInput EXCEPT !.operation = "fail", !.exitCode = c] : c \in FailExitCodes}

\* A JavaScript number that the operations compute: the quotient num / den
\* (den = 0: Infinity or NaN).
Number(num, den) == [num |-> num, den |-> den]

\* What processOperation settles with: the value it resolves to, or the
\* message of the Error it throws.
Resolved(kind, result) == [threw |-> FALSE, message |-> "none", kind |-> kind, result |-> result]
Thrown(message) == [threw |-> TRUE, message |-> message, kind |-> "error", result |-> Number(0, 1)]

\* numbers.reduce((acc, n) => acc op n, acc) from the left.
RECURSIVE reduce(_, _, _)
reduce(op, numbers, acc) ==
  IF numbers = <<>> THEN acc
  ELSE reduce(op, Tail(numbers),
              IF op = "+" THEN acc + Head(numbers)
              ELSE IF op = "-" THEN acc - Head(numbers)
              ELSE acc * Head(numbers))

\* Math.pow for an exponent that is an integer.
RECURSIVE pow(_, _)
pow(base, exponent) ==
  IF exponent = 0 THEN Number(1, 1)
  ELSE IF exponent < 0 THEN Number(1, pow(base, 0 - exponent).num)
  ELSE Number(base * pow(base, exponent - 1).num, 1)

RECURSIVE factorialLoop(_, _, _)
factorialLoop(i, n, result) ==
  IF i <= n THEN factorialLoop(i + 1, n, result * i) ELSE result

factorial_NegativeIsOne(n) ==
  IF n > 170 THEN Thrown("Factorial too large (max 170)")
  ELSE IF n <= 1 THEN Resolved("math", Number(1, 1))
  ELSE Resolved("math", Number(factorialLoop(2, n, 1), 1))

factorial(n) ==
  IF n < 0 THEN Thrown("Factorial of negative number")
  ELSE IF n > 170 THEN Thrown("Factorial too large (max 170)")
  ELSE IF n = 0 \/ n = 1 THEN Resolved("math", Number(1, 1))
  ELSE Resolved("math", Number(factorialLoop(2, n, 1), 1))

handleMath(input) ==
  LET numbers == input.numbers
  IN IF ~input.hasNumbers \/ Len(numbers) = 0
     THEN Thrown("Math operation requires at least one number")
     ELSE CASE input.action = "add" -> Resolved("math", Number(reduce("+", numbers, 0), 1))
            [] input.action = "subtract" ->
                 Resolved("math", Number(reduce("-", Tail(numbers), Head(numbers)), 1))
            [] input.action = "multiply" -> Resolved("math", Number(reduce("*", numbers, 1), 1))
            [] input.action = "divide" ->
                 IF \E i \in 2..Len(numbers) : numbers[i] = 0
                 THEN Thrown("Division by zero")
                 ELSE Resolved("math", Number(Head(numbers), reduce("*", Tail(numbers), 1)))
            [] input.action = "power" ->
                 IF Len(numbers) # 2
                 THEN Thrown("Power operation requires exactly 2 numbers [base, exponent]")
                 ELSE Resolved("math", pow(numbers[1], numbers[2]))
            [] input.action = "factorial" ->
                 IF Len(numbers) # 1
                 THEN Thrown("Factorial operation requires exactly 1 number")
                 ELSE factorial(numbers[1])
            [] OTHER -> Thrown("Unknown math action")

handleTransform(input) ==
  IF ~input.hasText THEN Thrown("Transform operation requires a text string")
  ELSE IF input.action = "uppercase" THEN Resolved("transform", Number(0, 1))
  ELSE Thrown("Unknown transform action")

handleDelay(input) ==
  IF input.seconds < 0 \/ input.seconds > 300
  THEN Thrown("Delay must be between 0 and 300 seconds")
  ELSE Resolved("delay", Number(input.seconds, 1))

\* processOperation; reading input.operation of the JSON value null throws a
\* TypeError.
processOperation(input) ==
  IF input.text = "null" THEN Thrown("TypeError")
  ELSE CASE input.operation = "echo" -> Resolved("echo", Number(0, 1))
         [] input.operation = "math" -> handleMath(input)
         [] input.operation = "transform" -> handleTransform(input)
         [] input.operation = "delay" -> handleDelay(input)
         [] input.operation = "fail" -> Thrown("Intentional test failure")
         [] OTHER -> Thrown("Unknown operation")

createSuccessOutput(operation, settled) ==
  [success |-> TRUE, operation |-> operation, kind |-> settled.kind,
   result |-> settled.result, error |-> "none"]

createErrorOutput(errorMessage) ==
  [success |-> FALSE, operation |-> "error", kind |-> "error",
   result |-> Number(0, 1), error |-> errorMessage]

\* process.exit(code): the status the parent sees is the low 8 bits.
exit(code) == code % 256

\* main: what the worker has printed on standard output, and its exit status.
main(input) ==
  IF input.text = "not json"
  THEN [stdout |-> <<createErrorOutput("Failed to parse TASK_INPUT as JSON")>>,
        exitCode |-> exit(1)]
  ELSE LET settled == processOperation(input)
       IN IF ~settled.threw
          THEN [stdout |-> <<createSuccessOutput(input.operation, settled)>>,
                exitCode |-> exit(0)]
          ELSE [stdout |-> <<createErrorOutput(settled.message)>>,
                exitCode |->
                  IF input.text = "null" THEN exit(1)   \* the catch block throws; main().catch
                  ELSE IF input.operation = "fail" /\ input.exitCode # 0
                  THEN exit(input.exitCode)
                  ELSE exit(1)]

\* A container of the test worker is started with some TASK_INPUT.
WorkerInit ==
  /\ tasks = [t \in Tasks |-> NoTaskRecord]
  /\ subscriptions = [u \in Users |-> <<>>]
  /\ usage_records = PriorUsage
  /\ jobs = [t \in Tasks |-> NoJob]
  /\ containers = [t \in Tasks |-> "none"]
  /\ slots = [s \in Slots |-> IdleSlot]
  /\ charges = [t \in Tasks |-> 0]
  /\ faults = 0
  /\ starts = 0
  /\ scope = {}
  /\ concurrency = 1
  /\ rejected = NoRejection
  /\ call = NoCall
  /\ handled = NoRequest
  /\ INTERNAL_API_KEY = ConfiguredKey
  /\ exited = {}
  /\ lapsed = {}
  /\ \E input \in TaskInputs :
       worker = [pc |-> "started", input |-> input, stdout |-> <<>>, exitCode |-> 0]

RunWorker ==
  /\ worker.pc = "started"
  /\ worker' = [worker EXCEPT !.pc = "exited",
                              !.stdout = main(worker.input).stdout,
                              !.exitCode = main(worker.input).exitCode]
  /\ UNCHANGED <<tasks, subscriptions, usage_records, jobs, containers, slots, charges, faults, starts, scope, concurrency, rejected, call, handled, INTERNAL_API_KEY, exited, lapsed>>

WorkerSpec == WorkerInit /\ [][RunWorker]_vars

\* A user who subscribed twice, so that two subscription records are active,
\* and has submitted the task t1; Stripe's webhooks update and cancel the
\* subscriptions while the task is started and run. Nothing fails.
LapseInit ==
  /\ subscriptions = [u \in Users |-> <<Subscription("starter", "active"),
                                        Subscription("starter", "active")>>]
  /\ tasks = [t \in Tasks |->
                IF t = "t1"
                THEN [NoTaskRecord EXCEPT !.status = "pending", !.user = "u1",
                                          !.type = "test-worker"]
                ELSE NoTaskRecord]
  /\ usage_records = PriorUsage
  /\ jobs = [t \in Tasks |-> NoJob]
  /\ containers = [t \in Tasks |-> "none"]
  /\ slots = [s \in Slots |-> IdleSlot]
  /\ charges = [t \in Tasks |-> 0]
  /\ faults = 0
  /\ starts = 0
  /\ scope = {"t1"}
  /\ concurrency = 1
  /\ rejected = NoRejection
  /\ call = NoCall
  /\ handled = NoRequest
  /\ INTERNAL_API_KEY = ConfiguredKey
  /\ worker = NoWorker
  /\ exited = {}
  /\ lapsed = {}

\* The positions of the two subscription records of the user.
TwoRecords == {1, 2}

Lapsing ==
  \/ \E u \in Users, i \in TwoRecords, status \in StripeStatuses, priceId \in Prices :
       handleSubscriptionUpdate(u, i, status, priceId)
  \/ \E u \in Users, i \in TwoRecords : handleSubscriptionCanceled(u, i)
  \/ \E t \in Tasks, u \in Users, type \in RequestTypes, plan \in RequestPlans :
       StartTask(t, u, type, plan, TRUE)
  \/ \E s \in Slots, t \in Tasks : Dequeue(s, t)
  \/ \E s \in Slots :
       \/ UpdateRunning(s) \/ PullImage(s) \/ CreateContainer(s) \/ StartContainer(s)
       \/ Race(s) \/ Logs(s) \/ Remove(s) \/ UpdateTerminal(s)
       \/ UsageGet(s) \/ UsageWrite(s) \/ Return(s)

LapseSpec == LapseInit /\ [][Lapsing]_vars

\* Two tasks of one owner on a worker with two slots: the first task is
\* created and its job waits in the queue, the second is yet to be submitted.
\* The record store, the runtime and the worker process work without faults.
ConcurrentInit ==
  /\ subscriptions \in [Users -> {<<>>, <<Subscription("starter", "active")>>}]
  /\ tasks = [t \in Tasks |->
                IF t = "t1"
                THEN [NoTaskRecord EXCEPT !.status = "pending", !.user = "u1",
                                          !.type = "test-worker"]
                ELSE NoTaskRecord]
  /\ jobs = [t \in Tasks |->
               IF t = "t1"
               THEN [state |-> "waiting", attemptsMade |-> 0, stalledCount |-> 0,
                     userId |-> "u1", type |-> "test-worker",
                     workerImage |-> getWorkerImage("test-worker"),
                     cpuLimit |-> cpuLimit, memoryLimit |-> memoryLimitMb,
                     timeoutSeconds |-> PLAN_LIMITS[PlanOf("u1", TRUE)].maxDurationSeconds]
               ELSE NoJob]
  /\ usage_records = PriorUsage
  /\ containers = [t \in Tasks |-> "none"]
  /\ slots = [s \in Slots |-> IdleSlot]
  /\ charges = [t \in Tasks |-> 0]
  /\ faults = 0
  /\ starts = 0
  /\ scope = Tasks
  /\ concurrency = 2
  /\ rejected = NoRejection
  /\ call = NoCall
  /\ handled = NoRequest
  /\ INTERNAL_API_KEY = ConfiguredKey
  /\ worker = NoWorker
  /\ exited = {}
  /\ lapsed = {}

\* The steps of the system while every call is answered: the catch block of
\* runContainer is never entered.
Undisturbed ==
  \/ \E t \in Tasks, u \in Users, type \in RequestTypes : CreateTask(t, u, type)
  \/ \E t \in Tasks, u \in Users, type \in RequestTypes, plan \in RequestPlans :
       StartTask(t, u, type, plan, TRUE)
  \/ \E s \in Slots, t \in Tasks : Dequeue(s, t)
  \/ \E s \in Slots :
       \/ UpdateRunning(s) \/ PullImage(s) \/ CreateContainer(s) \/ StartContainer(s)
       \/ Race(s) \/ Logs(s) \/ Remove(s) \/ UpdateTerminal(s)
       \/ UsageGet(s) \/ UsageWrite(s) \/ Return(s)

\* The worker with MAX_CONCURRENT_WORKERS = 2 and two tasks in play.
ConcurrentSpec == ConcurrentInit /\ [][Undisturbed]_vars

\* ------------------------------------------------------------------ claims
\* The slot has persisted the terminal update of its job's task.
PostUpdate == {"usageGet", "usageWrite", "return"}

\* runContainer has returned its result to processTask.
Returned == {"updateTerminal"} \cup PostUpdate

StatusRank(status) ==
  CASE status = "absent" -> 0
    [] status = "pending" -> 1
    [] status = "queued" -> 2
    [] status = "running" -> 3
    [] OTHER -> 4

\* C1 (as claimed): once a task's status is completed, failed or canceled no
\* later step changes it, and a status never moves back to an earlier one of
\* pending, queued, running, terminal.
C1_TerminalStatusIsFinal ==
  [][\A t \in Tasks :
       /\ tasks[t].status \in Terminal => tasks'[t].status = tasks[t].status
       /\ StatusRank(tasks'[t].status) >= StatusRank(tasks[t].status)]_vars

\* C2 (as claimed): over all attempts of a task's job the owner's usage
\* record is charged at most once for the task.
C2_ChargedAtMostOnce == \A t \in Tasks : charges[t] <= 1

C3_Inv ==
  \A s \in Slots :
    LET t == slots[s].task
    IN IF slots[s].pc \in PostUpdate
       THEN /\ slots[s].calls = 1
            /\ tasks[t].status = StatusOf(slots[s].result)
            /\ tasks[t].completedAt
            /\ tasks[t].resourceUsage = slots[s].result.resourceUsage
            /\ tasks[t].resourceUsage # NoUsage
       ELSE slots[s].calls = 0

C3_Step ==
  \A t \in Tasks :
    (tasks'[t] # tasks[t] /\ tasks'[t].status \in {"completed", "failed"}) =>
      \E s \in Slots :
        /\ slots[s].task = t
        /\ slots[s].pc = "updateTerminal"
        /\ slots'[s].pc = "usageGet"
        /\ slots'[s].calls = 1
        /\ tasks'[t].completedAt
        /\ tasks'[t].resourceUsage = slots[s].result.resourceUsage

C4_ExhaustedJobFailsTask ==
  \A t \in Tasks :
    (jobs[t].state = "failed" /\ jobs[t].attemptsMade = attempts /\ tasks[t].status # "absent")
      => (tasks[t].status = "failed" /\ tasks[t].error # Undefined)

\* C5 (as claimed): when the timeout wins the race, runContainer (unless the
\* runtime rejects a later call) returns exit code -1 with the timeout error
\* and the container removed, and the task eventually is failed.
C5_TimeoutFailsTask ==
  /\ [](\A s \in Slots :
          (slots[s].raced = "timeout" /\ slots[s].pc \in Returned /\ ~slots[s].caught) =>
             /\ slots[s].result.exitCode = -1
             /\ slots[s].result.error = TimeoutError(jobs[slots[s].task].timeoutSeconds)
             /\ containers[slots[s].task] = "none")
  /\ \A s \in Slots : \A t \in Tasks :
       (slots[s].task = t /\ slots[s].raced = "timeout") ~> (tasks[t].status = "failed")

\* C6 (as claimed): a run ended by the timeout reports a duration, and so cpu
\* and memory figures, of at most timeoutSeconds plus the grace.
C6_TimeoutCapsDuration ==
  \A s \in Slots :
    (slots[s].raced = "timeout" /\ slots[s].pc \in Returned) =>
      LET T == jobs[slots[s].task].timeoutSeconds
          usage == slots[s].result.resourceUsage
      IN /\ usage.durationSeconds <= T + Grace
         /\ usage.cpuSeconds <= (T + Grace) * cpuLimit
         /\ usage.memoryMbSeconds <= (T + Grace) * memoryLimitMb

C8_LastJsonLineIsOutput ==
  \A s \in Slots :
    LET out == slots[s].result.output
    IN (/\ slots[s].pc \in PostUpdate
        /\ slots[s].result.exitCode = 0
        /\ Len(out) > 0 /\ out[Len(out)] = JsonLine)
       => /\ tasks[slots[s].task].status = "completed"
          /\ tasks[slots[s].task].output = [kind |-> "json", doc |-> JsonLine, raw |-> <<>>]

C10_ErrorMatchesStatus ==
  /\ \A t \in Tasks :
       /\ tasks[t].status = "failed" => tasks[t].error # Undefined
       /\ tasks[t].status = "completed" => tasks[t].error = Undefined
  /\ \A s \in Slots :
       (slots[s].pc \in PostUpdate /\ ~slots[s].caught) =>
          LET t == slots[s].task
              T == jobs[t].timeoutSeconds
          IN /\ tasks[t].error = TimeoutError(T) <=> slots[s].raced = "timeout"
             /\ (slots[s].raced = "wait" /\ slots[s].StatusCode # 0)
                   => tasks[t].error = ExitCodeError(slots[s].StatusCode)

\* A call of recordUsage to the record store was rejected in this step: the
\* lookup did not hand over to the write, or the write charged nothing, and
\* the worker itself did not die.
C11_UsageCallFailed(s) ==
  LET t == slots[s].task
  IN /\ slots[s].pc \in {"usageGet", "usageWrite"}
     /\ slots'[s] # slots[s]
     /\ jobs'[t].stalledCount = jobs[t].stalledCount
     /\ \/ slots[s].pc = "usageGet" /\ slots'[s].pc # "usageWrite"
        \/ slots[s].pc = "usageWrite" /\ charges'[t] = charges[t]

\* C11: a rejected record-store call of recordUsage leaves the task record
\* (terminal status, output, error, timestamps) and the job as they are and
\* takes the attempt on to its return; the return completes the job with no
\* attempt counted, so the queue does not retry it.
C11_UsageFailureIsSwallowed ==
  [][\A s \in Slots :
       LET t == slots[s].task
       IN /\ C11_UsageCallFailed(s) =>
               /\ tasks'[t] = tasks[t]
               /\ tasks[t].status \in {"completed", "failed"} /\ tasks[t].completedAt
               /\ jobs'[t] = jobs[t]
               /\ slots'[s].pc = "return" /\ slots'[s].task = t
          /\ (/\ slots[s].pc = "return" /\ slots'[s] # slots[s]
              /\ jobs'[t].stalledCount = jobs[t].stalledCount) =>
               /\ tasks'[t] = tasks[t]
               /\ jobs'[t] = [jobs[t] EXCEPT !.state = "completed"]]_vars

\* C11 witness: a job completed in its only attempt although nothing was
\* charged for its completed task: the usage call of that attempt failed.
C11_Witness ==
  \E t \in Tasks :
    /\ jobs[t].state = "completed" /\ jobs[t].attemptsMade = 0 /\ jobs[t].stalledCount = 0
    /\ tasks[t].status = "completed" /\ tasks[t].completedAt
    /\ charges[t] = 0
    /\ faults < MaxFaults

\* C12: the store never holds two usage records of the same user and period,
\* also when two slots both found none and both go on to create one.
C12_OneRecordPerUserPeriod ==
  \A i, j \in 1..Len(usage_records) :
    (/\ usage_records[i].user = usage_records[j].user
     /\ usage_records[i].period = usage_records[j].period) => i = j

\* C12 witness: a slot that found no record of its user is about to create
\* one, while the other slot, which found none either, has created it.
C12_Witness ==
  \E s \in Slots :
    /\ slots[s].pc = "usageWrite"
    /\ slots[s].existing.id = 0
    /\ FirstOf(jobs[slots[s].task].userId) # 0
    /\ \E r \in Slots : r # s /\ slots[r].pc = "return" /\ charges[slots[r].task] = 1

\* C13 (as claimed): when the jobs of both tasks of the owner have run to
\* their end on the two slots, with every call to the store answered, the
\* owner's usage record of the period counts two tasks and holds the sums of
\* the two tasks' cpu and memory usage, however the slots' steps interleaved.
C13_NoUsageUpdateIsLost ==
  (\A t \in Tasks : jobs[t].state = "completed" /\ jobs[t].userId = "u1") =>
    LET i == FirstOf("u1")
        u1 == tasks["t1"].resourceUsage
        u2 == tasks["t2"].resourceUsage
    IN /\ i # 0
       /\ usage_records[i].taskCount = 2
       /\ usage_records[i].cpuSeconds = u1.cpuSeconds + u2.cpuSeconds
       /\ usage_records[i].memoryMbSeconds = u1.memoryMbSeconds + u2.memoryMbSeconds

\* The usage records of an owner for the current period, by position.
C14_RecordsOf(u) ==
  {i \in 1..Len(usage_records) :
     usage_records[i].user = u /\ usage_records[i].period = period}

C15_AllowList == {"example-worker", "test-worker"}

C15_Images == {"saassy/example-worker:latest", "saassy/test-worker:latest"}

\* C15: every task record and every job carries a type of the allow-list and
\* a job's image is the registered image of its type; a request with any
\* other type is answered 400 and leaves the task records and the queue as
\* they were.
C15_UnknownTypeIsRejected ==
  /\ [](\A t \in Tasks :
          /\ tasks[t].status # "absent" => tasks[t].type \in C15_AllowList
          /\ jobs[t].state # "absent" =>
                /\ jobs[t].type \in C15_AllowList
                /\ jobs[t].workerImage \in C15_Images)
  /\ [](rejected # NoRejection =>
          (rejected.status = 400 /\ rejected.type \notin C15_AllowList))
  /\ [][rejected' # rejected => (tasks' = tasks /\ jobs' = jobs)]_vars

\* C15 witness: start requests with type constructor and submissions with
\* type not-a-real-worker were turned down: no job, no task record.
C15_Witness ==
  /\ rejected.route = "POST /internal/tasks/start"
  /\ rejected.type = "constructor"
  /\ \A t \in Tasks : jobs[t].state = "absent"

\* maxDurationSeconds of the four plans.
C16_MaxDuration(plan) ==
  CASE plan = "starter" -> 300
    [] plan = "pro" -> 3600
    [] plan = "enterprise" -> 86400
    [] OTHER -> 60

\* The plan of the user's most recently created active subscription, free
\* when there is none.
C16_StorePlan(u) ==
  LET subs == subscriptions[u]
      active == {i \in 1..Len(subs) : subs[i].status = "active"}
  IN IF active = {} THEN "free"
     ELSE subs[CHOOSE i \in active : \A j \in active : j <= i].plan

C17_MonthTasks(u) ==
  LET hits == {i \in 1..Len(usage_records) :
                 usage_records[i].user = u /\ usage_records[i].period = period}
  IN IF hits = {} THEN 0 ELSE usage_records[CHOOSE i \in hits : TRUE].taskCount

\* C17 (as claimed): while a free-tier owner has used up the 10 tasks of the
\* month, admission requests are rejected (with a quota error): no task
\* record of that owner is created and no job of that owner is enqueued.
C17_FreeQuotaIsEnforced ==
  \A u \in Users :
    (C16_StorePlan(u) = "free" /\ C17_MonthTasks(u) >= 10) =>
      \A t \in Tasks : tasks[t].user # u /\ jobs[t].userId # u

\* maxConcurrent of the four plans.
C18_MaxConcurrent(plan) ==
  CASE plan = "starter" -> 3
    [] plan = "pro" -> 10
    [] plan = "enterprise" -> 50
    [] OTHER -> 1

\* C18 (as claimed): an owner never has more tasks in status running than
\* the maxConcurrent of the owner's plan (admission at the ceiling being
\* rejected with a concurrency-limit error).
C18_RunningWithinPlan ==
  \A u \in Users :
    Cardinality({t \in Tasks : tasks[t].status = "running" /\ tasks[t].user = u})
      <= C18_MaxConcurrent(C16_StorePlan(u))

\* C19: canCreateTask returns allowed = false exactly when currentConcurrent
\* has reached the plan's maxConcurrent, or the plan is free and
\* currentMonthTasks has reached its 10 tasks; starter and pro stay allowed
\* at and above their monthly quota and enterprise has no monthly limit.
C19_CanCreateTaskDecides ==
  call.pc = "returned" =>
    /\ ~call.returned.allowed <=>
          \/ call.currentConcurrent >= C18_MaxConcurrent(call.plan)
          \/ call.plan = "free" /\ call.currentMonthTasks >= 10
    /\ (/\ call.plan \in {"starter", "pro", "enterprise"}
        /\ call.currentConcurrent < C18_MaxConcurrent(call.plan))
         => call.returned.allowed

\* C19 witness: a starter plan over its 100 tasks of the month, below its 3
\* concurrent tasks, is allowed.
C19_Witness ==
  /\ call.pc = "returned"
  /\ call.plan = "starter"
  /\ call.currentMonthTasks > 100
  /\ call.currentConcurrent = 2
  /\ call.returned.allowed

C20_Limits(job) ==
  [timeoutSeconds |-> job.timeoutSeconds, cpuLimit |-> job.cpuLimit,
   memoryLimit |-> job.memoryLimit]

\* C20 (as claimed): a job is enqueued with the limits of the plan the owner
\* has at that moment and keeps them for as long as it exists.
C20_LimitsEqualPlanAtEnqueue ==
  [][\A t \in Tasks :
       /\ (jobs[t].state = "absent" /\ jobs'[t].state # "absent") =>
             C20_Limits(jobs'[t]) =
               [timeoutSeconds |-> C16_MaxDuration(C16_StorePlan(jobs'[t].userId)),
                cpuLimit |-> 1, memoryLimit |-> 512]
       /\ (jobs[t].state # "absent" /\ jobs'[t].state # "absent") =>
             C20_Limits(jobs'[t]) = C20_Limits(jobs[t])]_vars

\* C20 (amended): a job is enqueued with the limits of the plan the store holds at
\* that moment (free when the lookup failed) and keeps them for as long as it
\* exists, whatever happens to the owner's subscriptions; its sandbox runs
\* under these: a run ended by the timeout lasted the job's timeoutSeconds
\* from the race on and reports it in its error, and the usage figures are
\* the duration times the job's cpu and memory limits.
C20_LimitsFixedAtEnqueue ==
  /\ [][\A t \in Tasks :
          /\ (jobs[t].state = "absent" /\ jobs'[t].state # "absent") =>
                C20_Limits(jobs'[t]) =
                  [timeoutSeconds |->
                     IF faults' = faults
                     THEN C16_MaxDuration(C16_StorePlan(jobs'[t].userId))
                     ELSE C16_MaxDuration("free"),
                   cpuLimit |-> 1, memoryLimit |-> 512]
          /\ (jobs[t].state # "absent" /\ jobs'[t].state # "absent") =>
                C20_Limits(jobs'[t]) = C20_Limits(jobs[t])]_vars
  /\ [](\A s \in Slots :
          (slots[s].pc \in Returned /\ ~slots[s].caught) =>
            LET job == jobs[slots[s].task]
                usage == slots[s].result.resourceUsage
            IN /\ slots[s].raced = "timeout" =>
                    /\ slots[s].result.error = TimeoutError(job.timeoutSeconds)
                    /\ slots[s].elapsed \in {job.timeoutSeconds,
                                              job.timeoutSeconds + MaxPullSeconds}
               /\ usage.cpuSeconds = usage.durationSeconds * job.cpuLimit
               /\ usage.memoryMbSeconds = usage.durationSeconds * job.memoryLimit)

\* C20 witness: a sandbox was stopped by the free plan's timeout of 60 s, set
\* when its job was enqueued, although the owner's newest active
\* subscription is starter by now.
C20_Witness ==
  \E s \in Slots :
    /\ slots[s].pc \in Returned /\ ~slots[s].caught
    /\ slots[s].raced = "timeout"
    /\ slots[s].result.error = TimeoutError(60)
    /\ jobs[slots[s].task].attemptsMade = 0
    /\ faults = 1
    /\ C16_StorePlan(jobs[slots[s].task].userId) = "starter"

\* C21 (as claimed): a task whose job was added by an accepted start request
\* and has not been dequeued yet (the job waits, with no attempt made and no
\* stall) is stored with status queued.
C21_QueuedUntilDequeued ==
  \A t \in Tasks :
    (/\ tasks[t].status # "absent"
     /\ jobs[t].state = "waiting"
     /\ jobs[t].attemptsMade = 0
     /\ jobs[t].stalledCount = 0)
      => tasks[t].status = "queued"

\* The data of a job: what queue.add stored under the job id.
C22_Data(job) ==
  [userId |-> job.userId, type |-> job.type, workerImage |-> job.workerImage,
   cpuLimit |-> job.cpuLimit, memoryLimit |-> job.memoryLimit,
   timeoutSeconds |-> job.timeoutSeconds]

C23_CanceledWhileWaiting(t) ==
  /\ handled.route = "DELETE /internal/tasks/:id"
  /\ handled.task = t
  /\ handled.found = "waiting"
  /\ handled.path = "no container"

\* C23 (as claimed): once a cancel request has removed the waiting job of a
\* task, no worker slot processes the task and no container exists for it,
\* whatever is requested afterwards.
C23_CanceledWaitingJobNeverRuns ==
  \A t \in Tasks :
    C23_CanceledWhileWaiting(t) =>
      /\ jobs[t].state \in {"absent", "waiting"}
      /\ \A s \in Slots : slots[s].task # t
      /\ containers[t] = "none"

\* The last cancel request handled was answered 200 for task t, whose job it
\* found waiting (the task was queued), and the task has not completed or
\* failed.
C24_CancelAccepted(t) ==
  /\ handled.route = "DELETE /internal/tasks/:id"
  /\ handled.task = t
  /\ handled.status = 200
  /\ handled.found = "waiting"
  /\ tasks[t].status \notin {"completed", "failed"}

\* C24 (as claimed): a task whose cancel request was accepted while it was
\* queued, and which has not completed or failed, comes to be stored with
\* status canceled.
C24_AcceptedCancelLeadsToCanceled ==
  \A t \in Tasks : C24_CancelAccepted(t) ~> (tasks[t].status = "canceled")

\* C25 (as claimed): a cancel request handled while a worker slot holds the
\* task's job and its sandbox runs reaches stopContainer: the container of
\* the task is stopped and removed.
C25_CancelStopsRunningSandbox ==
  [][\A t \in Tasks :
       (/\ handled' # handled
        /\ handled'.route = "DELETE /internal/tasks/:id"
        /\ handled'.task = t
        /\ jobs[t].state = "active"
        /\ containers[t] = "running")
         => containers'[t] = "none"]_vars

C27_StopContainerIsIdempotent ==
  [][\A t \in Tasks :
       (/\ handled' # handled
        /\ handled'.route = "DELETE /internal/tasks/:id"
        /\ handled'.task = t
        /\ handled'.found # "active")
         => (handled'.status = 200 /\ containers'[t] = "none")]_vars

\* C28 (as claimed): once runContainer has returned to processTask, on its
\* try path, its timeout path or its catch path, the container it created no
\* longer exists; so none exists when the terminal status is written.
C28_ReturnedMeansRemoved ==
  \A s \in Slots :
    slots[s].pc \in Returned => containers[slots[s].task] = "none"

C30_Existing == {t \in Tasks : containers[t] # "none"}

\* C30 (as claimed): the number of existing sandbox containers never exceeds
\* the worker's concurrency.
C30_ContainersWithinConcurrency == Cardinality(C30_Existing) <= concurrency

\* C31: a request to an internal route whose x-api-key header is not the
\* configured INTERNAL_API_KEY, or any request while no key is configured, is
\* answered 401 (500 when no key is configured) and leaves the queue and the
\* containers as they are.
C31_WrongKeyChangesNothing ==
  [][\A apiKey \in ApiKeys, route \in InternalRoutes, t \in scope, u \in Users,
        type \in RequestTypes :
       ( /\ apiKey # INTERNAL_API_KEY \/ INTERNAL_API_KEY = "undefined"
         /\ InternalRequest(apiKey, route, t, u, type, "free") )
       => /\ rejected'.route = route
          /\ rejected'.status = IF INTERNAL_API_KEY = "undefined" THEN 500 ELSE 401
          /\ jobs' = jobs
          /\ containers' = containers]_vars

\* C31 witness: a cancel request with a wrong key was answered 401 while the
\* task's job waited in the queue and its container ran.
C31_Witness ==
  /\ rejected.route = "DELETE /internal/tasks/:id"
  /\ rejected.status = 401
  /\ jobs["t1"].state = "waiting"
  /\ containers["t1"] = "running"

\* C32 (as claimed): when the usage of a task is written to a usage record,
\* the record written is one of the user stored on the task record, whatever
\* userId the start request carried.
C32_UsageChargedToOwner ==
  [][\A t \in Tasks :
       charges'[t] > charges[t]
       => \E i \in 1..Len(usage_records') :
            /\ usage_records'[i].user = tasks[t].user
            /\ \/ i > Len(usage_records)
               \/ usage_records'[i].taskCount > usage_records[i].taskCount]_vars

\* C33 (as claimed): for every TASK_INPUT the test worker has printed exactly
\* one JSON object with a boolean success field when it exits, its exit
\* status is 0 exactly when success is true, and on failure the status is 1,
\* or the exitCode of the request for operation fail with a non-zero exitCode.
C33_OneResultAndStatus ==
  worker.pc = "exited" =>
    /\ Len(worker.stdout) = 1
    /\ worker.stdout[1].success \in BOOLEAN
    /\ (worker.exitCode = 0) <=> worker.stdout[1].success
    /\ ~worker.stdout[1].success =>
         worker.exitCode = IF worker.input.operation = "fail" /\ worker.input.exitCode # 0
                           THEN worker.input.exitCode
                           ELSE 1

RECURSIVE C34_Sum(_)
C34_Sum(numbers) == IF numbers = <<>> THEN 0 ELSE Head(numbers) + C34_Sum(Tail(numbers))

RECURSIVE C34_Product(_)
C34_Product(numbers) == IF numbers = <<>> THEN 1 ELSE Head(numbers) * C34_Product(Tail(numbers))

RECURSIVE C34_Factorial(_)
C34_Factorial(n) == IF n = 0 THEN 1 ELSE n * C34_Factorial(n - 1)

\* The math requests that the claim says fail.
C34_MustFail(input) ==
  \/ ~input.hasNumbers
  \/ input.numbers = <<>>
  \/ input.action = "divide" /\ \E i \in 2..Len(input.numbers) : input.numbers[i] = 0
  \/ input.action = "power" /\ Len(input.numbers) # 2
  \/ input.action = "factorial" /\ (Len(input.numbers) # 1 \/ input.numbers[1] < 0)
  \/ input.action \notin MathActions

\* C34: a math request fails, with success false and an error message, when
\* numbers is missing or empty, on a division by a zero after the first
\* number, on power without exactly 2 numbers, on factorial without exactly
\* 1 number or of a negative number, and on an unknown action; add and
\* multiply of a non-empty list succeed with the sum and the product, and
\* factorial of n in 0..170 succeeds with n!.
C34_MathRequests ==
  (worker.pc = "exited" /\ worker.input.text = "object" /\ worker.input.operation = "math") =>
    LET input == worker.input
        output == worker.stdout[1]
    IN /\ C34_MustFail(input) => ~output.success /\ output.error # "none"
       /\ (~C34_MustFail(input) /\ input.action = "add") =>
            output.success /\ output.result = Number(C34_Sum(input.numbers), 1)
       /\ (~C34_MustFail(input) /\ input.action = "multiply") =>
            output.success /\ output.result = Number(C34_Product(input.numbers), 1)
       /\ (~C34_MustFail(input) /\ input.action = "factorial" /\ input.numbers[1] \in 0..170) =>
            output.success /\ output.result = Number(C34_Factorial(input.numbers[1]), 1)

\* C34 witness: the factorial of a negative number was asked for and refused.
C34_Witness ==
  /\ worker.pc = "exited"
  /\ worker.input.operation = "math"
  /\ worker.input.action = "factorial"
  /\ worker.input.numbers = <<-1>>
  /\ ~worker.stdout[1].success
  /\ worker.stdout[1].error = "Factorial of negative number"

\* The part of C35 that is about order: a container of a task is created only
\* after the task was stored as running with its startedAt, and no task that
\* has a container is stored as pending or queued.
C35_NeverPendingOrQueued ==
  /\ [](\A t \in Tasks : containers[t] # "none" => tasks[t].status \notin {"absent", "pending", "queued"})
  /\ [][\A t \in Tasks :
          (containers[t] = "none" /\ containers'[t] # "none")
          => tasks[t].status = "running" /\ tasks[t].startedAt]_vars

\* C35 (as claimed): the update to running, with startedAt, has completed
\* before the container of an attempt is created, and whenever a container of
\* a task exists the task is stored as running.
C35_RunningBeforeSandbox ==
  /\ [](\A t \in Tasks : containers[t] # "none" => tasks[t].status = "running")
  /\ [][\A t \in Tasks :
          (containers[t] = "none" /\ containers'[t] # "none")
          => tasks[t].status = "running" /\ tasks[t].startedAt]_vars

\* C36 (as claimed): once the sandbox of a task has run to its exit, no later
\* attempt of the job starts another sandbox for the task.
C36_ExecutedAtMostOnce ==
  [][\A t \in Tasks :
       (containers[t] # "running" /\ containers'[t] = "running") => t \notin exited]_vars

\* How often the queue has handed a job to a worker slot: its failed
\* attempts, the times it stalled, and the attempt under way or completed.
C37_HandedOut(job) ==
  job.attemptsMade + job.stalledCount + IF job.state \in {"active", "completed"} THEN 1 ELSE 0

C38_UsageIsDurationTimesLimits ==
  \A s \in Slots :
    slots[s].pc \in Returned =>
      LET usage == slots[s].result.resourceUsage
          limits == jobs[slots[s].task]
      IN /\ usage.cpuSeconds = usage.durationSeconds * limits.cpuLimit
         /\ usage.memoryMbSeconds = usage.durationSeconds * limits.memoryLimit
         /\ usage.durationSeconds >= 0
         /\ usage.cpuSeconds >= 0
         /\ usage.memoryMbSeconds >= 0

\* The attempt of slot s ends with processTask throwing: the slot is free
\* again and the queue has counted the attempt.
C39_Throws(s) ==
  /\ slots[s].pc # "idle"
  /\ slots'[s].pc = "idle"
  /\ jobs'[slots[s].task].attemptsMade = jobs[slots[s].task].attemptsMade + 1

\* C39: while the worker neither crashes nor stalls, the usage of a job is
\* recorded at most once over all its attempts: an attempt that throws has
\* not recorded usage, and an attempt that has persisted the terminal status
\* does not throw.
C39_UsageOncePerJob ==
  /\ [](\A t \in Tasks : charges[t] <= 1)
  /\ [][\A s \in Slots :
          C39_Throws(s) => /\ slots[s].pc \notin PostUpdate
                           /\ charges[slots[s].task] = 0
                           /\ charges'[slots[s].task] = 0]_vars

\* C39 witness: an attempt of the job threw, a later attempt completed, and
\* the usage of the task has been recorded once.
C39_Witness ==
  /\ jobs["t1"].state = "completed"
  /\ jobs["t1"].attemptsMade >= 1
  /\ charges["t1"] = 1

\* A start request for task t was accepted in this step: its job was added.
C40_Enqueued(t) == jobs[t].state = "absent" /\ jobs'[t].state = "waiting"

C40_HasActive(u) == \E i \in 1..Len(subscriptions[u]) : subscriptions[u][i].status = "active"

\* C40 (as claimed): after a subscription of a user was set to canceled by a
\* webhook, and while no later webhook has set a subscription of the user to
\* active, every job enqueued for the user has the free plan's timeout.
C40_FreeAfterCancellation ==
  [][\A t \in Tasks :
       (C40_Enqueued(t) /\ jobs'[t].userId \in lapsed)
       => jobs'[t].timeoutSeconds = PLAN_LIMITS["free"].maxDurationSeconds]_vars

\* C40 (amended): the same, while the user has no subscription record with
\* status active at all: neither one set active by a later webhook nor
\* another one that was active before the cancellation.
C40_FreeWhileNoneActive ==
  [][\A t \in Tasks :
       (C40_Enqueued(t) /\ jobs'[t].userId \in lapsed /\ ~C40_HasActive(jobs'[t].userId))
       => jobs'[t].timeoutSeconds = PLAN_LIMITS["free"].maxDurationSeconds]_vars

\* C40 witness: the newest subscription of the user is the starter plan and
\* was canceled, the other is past due, and the job of the user's task was
\* enqueued with the free plan's timeout.
C40_Witness ==
  /\ "u1" \in lapsed
  /\ subscriptions["u1"][2] = Subscription("starter", "canceled")
  /\ subscriptions["u1"][1] = Subscription("starter", "past_due")
  /\ jobs["t1"].state = "waiting"
  /\ jobs["t1"].userId = "u1"
  /\ jobs["t1"].timeoutSeconds = PLAN_LIMITS["free"].maxDurationSeconds

====
